---- MODULE Spec2Model ----
(***************************************************************************)
(* A model of the table codec and merge-write engine of huma-rime-adder:   *)
(* the column schema (model/columns.py), the staging lists                 *)
(* (model/cache.py) and the index, encoder, staging operations and rewrite *)
(* engine of CalcModel (model/calc.py).                                    *)
(*                                                                         *)
(* Text is modelled as a sequence of tokens.  A token is one character, or *)
(* a literal the code only ever compares as a whole ("columns:", "...",    *)
(* "- text", "- code", "- weight").  "NI", "MA" and "HAO" each stand for   *)
(* one Chinese character (U+4F60, U+5417, U+597D).  A file is a sequence   *)
(* of lines, a line a sequence of tokens.                                  *)
(***************************************************************************)
EXTENDS Integers, Sequences, FiniteSets, TLC

VARIABLES
    \* ---- model/cache.py exercised on its own (SpecCache)
    cl,            \* a CacheList
    clRet,         \* the last call on it: operation, arguments, result, list before
    clOps,         \* number of calls made
    \* ---- one rewrite of one table (SpecRewrite)
    rwIn,          \* the inputs of the rewrite: table, lines, raw upsert cache, delete cache
    rwOut,         \* the lines written by the first pass
    rwOut2,        \* the lines written by a second pass over the first pass's output
    rwPc,          \* "init", "once", "twice"
    \* ---- the encoder over a loaded index (SpecEncode)
    encDict,       \* the character code index
    encRet,        \* the last encode call: word and result
    \* ---- a CalcModel session (Spec)
    files,         \* file name -> [exists, lines]
    fileStatus,    \* self._simpleFileStatus, _englishFileStatus, _pinyinFileStatus, ...
    characterDict, \* self._characterDict
    codeDict,      \* self._codeDict : code -> list of CodeUnit
    englishDict,   \* self._englishDict
    charset,       \* self._charset
    isParseTigress,\* self._isParseTigress
    isParseEnglish,\* self._isParseEnglish
    cached,        \* table name -> raw upsert cache (self._tigressCached, ...)
    deleteCached,  \* table name -> raw delete cache (self._tigressDeleteCached, ...)
    charsetCached, \* self._charsetCached
    ret,           \* the last encode, add, edit, delete or writer call: arguments, result
    hist,          \* the add, edit and delete calls made since construction, in order
    nOps           \* number of add, edit, delete and writer calls made

cacheVars   == <<cl, clRet, clOps>>
rewriteVars == <<rwIn, rwOut, rwOut2, rwPc>>
encodeVars  == <<encDict, encRet>>
sessionVars == <<files, fileStatus, characterDict, codeDict, englishDict, charset,
                 isParseTigress, isParseEnglish, cached, deleteCached,
                 charsetCached, ret, hist, nOps>>
vars == <<cacheVars, rewriteVars, encodeVars, sessionVars>>

---------------------------------------------------------------------------
(* Tokens and text                                                         *)

TAB == "TAB"
SP  == " "

\* The tokens of the model in code point order (what Python's str comparison uses
\* on the words and codes that sorted() compares).
TokenOrder ==
    << TAB, SP, "!", "#", "- ", "- code", "- text", "- weight", "...",
       "0", "1", "2", "3", "4", "5", "6", "7", "8", "9",
       "F", "[", "]", "a", "b", "c", "characters", "columns:", "d", "e", "f",
       "hao", "import_tables:", "ma", "ni", "o", "phrases", "simple", "t", "x",
       "NI", "MA", "HAO" >>

Ord(t) == CHOOSE i \in 1..Len(TokenOrder) : TokenOrder[i] = t

Digits  == <<"0", "1", "2", "3", "4", "5", "6", "7", "8", "9">>
Letters == {"F", "a", "b", "c", "d", "e", "f", "o", "x"}
IsDigit(t) == \E i \in 1..10 : Digits[i] = t
DigitVal(t) == (CHOOSE i \in 1..10 : Digits[i] = t) - 1

Take(s, n) == SubSeq(s, 1, IF n < Len(s) THEN n ELSE Len(s))

\* str.startswith
StartsWith(s, p) == Len(s) >= Len(p) /\ SubSeq(s, 1, Len(p)) = p

\* Python's str < str
RECURSIVE StrLess(_, _)
StrLess(a, b) ==
    IF b = <<>> THEN FALSE
    ELSE IF a = <<>> THEN TRUE
    ELSE IF Head(a) = Head(b) THEN StrLess(Tail(a), Tail(b))
    ELSE Ord(Head(a)) < Ord(Head(b))

\* str.strip(): leading and trailing whitespace removed
IsSpace(t) == t \in {TAB, SP}
RECURSIVE LStrip(_)
LStrip(s) == IF s # <<>> /\ IsSpace(Head(s)) THEN LStrip(Tail(s)) ELSE s
RECURSIVE RStrip(_)
RStrip(s) ==
    IF s # <<>> /\ IsSpace(s[Len(s)]) THEN RStrip(SubSeq(s, 1, Len(s) - 1)) ELSE s
Strip(s) == RStrip(LStrip(s))

\* str.split("\t"): always at least one field
RECURSIVE SplitTab(_)
SplitTab(s) ==
    IF \A i \in 1..Len(s) : s[i] # TAB THEN <<s>>
    ELSE LET k == CHOOSE i \in 1..Len(s) :
                      s[i] = TAB /\ \A j \in 1..(i - 1) : s[j] # TAB
         IN  <<SubSeq(s, 1, k - 1)>> \o SplitTab(SubSeq(s, k + 1, Len(s)))

\* "\t".join
RECURSIVE JoinTab(_)
JoinTab(fs) ==
    IF fs = <<>> THEN <<>>
    ELSE IF Len(fs) = 1 THEN fs[1]
    ELSE fs[1] \o <<TAB>> \o JoinTab(Tail(fs))

\* str(int) for a non-negative int
RECURSIVE IntToStr(_)
IntToStr(n) ==
    IF n < 10 THEN <<Digits[n + 1]>>
    ELSE IntToStr(n \div 10) \o <<Digits[(n % 10) + 1]>>

RECURSIVE DigitsToInt(_, _)
DigitsToInt(s, acc) ==
    IF s = <<>> THEN acc ELSE DigitsToInt(Tail(s), acc * 10 + DigitVal(Head(s)))

\* common/conversion.py strToInt: the int of an all-digit string, else 0
strToInt(s) ==
    IF s # <<>> /\ \A i \in 1..Len(s) : IsDigit(s[i]) THEN DigitsToInt(s, 0) ELSE 0

\* common/conversion.py safeGet: lst[index], Python indexing (a negative index
\* counts from the end), the default when out of range.  index is 0-based.
safeGet(lst, index, default) ==
    IF index >= 0 /\ index < Len(lst) THEN lst[index + 1]
    ELSE IF index < 0 /\ -index <= Len(lst) THEN lst[Len(lst) + index + 1]
    ELSE default

\* common/english.py isPureEnglish: re.fullmatch("[A-Za-z]+")
isPureEnglish(s) == s # <<>> /\ \A i \in 1..Len(s) : s[i] \in Letters

\* CalcModel.getCleanWord: the symbols of the delete table removed
DeleteChars == {"!", "#", SP}
RECURSIVE getCleanWord(_)
getCleanWord(s) ==
    IF s = <<>> THEN <<>>
    ELSE IF Head(s) \in DeleteChars THEN getCleanWord(Tail(s))
    ELSE <<Head(s)>> \o getCleanWord(Tail(s))

---------------------------------------------------------------------------
(* model/columns.py : ColumnsModel                                         *)

ColumnsModel ==
    [text |-> -1, code |-> -1, weight |-> -1,
     str |-> <<>>, isCompleted |-> FALSE, columnsScope |-> FALSE]

Max2(a, b) == IF a >= b THEN a ELSE b
\* max(self.dict.values())
MaxRank(c) == Max2(c.text, Max2(c.code, c.weight))

\* A variant that gives the columns their default ranks whatever the order they
\* are declared in.
parseColumnsDefaultRanks(c, line) ==
    LET d == IF StartsWith(line, <<"- text">>) THEN [c EXCEPT !.text = 0]
             ELSE IF StartsWith(line, <<"- code">>) THEN [c EXCEPT !.code = 1]
             ELSE IF StartsWith(line, <<"- weight">>) THEN [c EXCEPT !.weight = 2]
             ELSE c
    IN  [d EXCEPT !.columnsScope =
            ~(d.text = 0 /\ d.code = 1 /\ d.weight = 2)]

parseColumns(c, line) ==
    LET d == IF StartsWith(line, <<"- text">>)
                 THEN [c EXCEPT !.text = MaxRank(c) + 1]
             ELSE IF StartsWith(line, <<"- code">>)
                 THEN [c EXCEPT !.code = MaxRank(c) + 1]
             ELSE IF StartsWith(line, <<"- weight">>)
                 THEN [c EXCEPT !.weight = MaxRank(c) + 1]
             ELSE c
    IN  [d EXCEPT !.columnsScope = ~(MaxRank(d) = 2)]

isAllColumnsUnset(c) == c.text = -1 /\ c.code = -1 /\ c.weight = -1

\* The template is the list of placeholders that "\t".join makes into self.str.
setFormatStr(c) ==
    LET d == IF isAllColumnsUnset(c)
                 THEN [c EXCEPT !.text = 0, !.code = 1, !.weight = 2]
                 ELSE c
        slot(i) == IF d.text = i THEN <<"{text}">>
                   ELSE IF d.code = i THEN <<"{code}">>
                   ELSE IF d.weight = i THEN <<"{weight}">>
                   ELSE <<>>
    IN  [d EXCEPT !.str = slot(0) \o slot(1) \o slot(2)]

lineHandler(c, line) ==
    IF line = <<"...">> THEN setFormatStr([c EXCEPT !.isCompleted = TRUE])
    ELSE IF line = <<"columns:">> THEN [c EXCEPT !.columnsScope = TRUE]
    ELSE IF c.columnsScope THEN parseColumns(c, line)
    ELSE c

\* columns.str.format(text=..., code=..., weight=...): each placeholder replaced,
\* the tabs between them kept.  weight is already text (str(weight)).
FormatRow(str, text, code, weight) ==
    JoinTab([i \in 1..Len(str) |->
                IF str[i] = "{text}" THEN text
                ELSE IF str[i] = "{code}" THEN code
                ELSE weight])

---------------------------------------------------------------------------
(* model/cache.py : CacheList, DeleteCacheList                             *)
(* A cache unit is [word, code, weight]; weight is an int.                 *)

SameKey(u, word, code) == u.word = word /\ u.code = code

\* sorted(tempDict.items()): ascending (word, code); the keys are distinct
KeyLess(a, b) ==
    StrLess(a.word, b.word) \/ (a.word = b.word /\ StrLess(a.code, b.code))

RECURSIVE SortByKey(_)
SortByKey(s) ==
    IF s = <<>> THEN <<>>
    ELSE LET m == CHOOSE i \in 1..Len(s) :
                      \A j \in 1..Len(s) : j # i => ~KeyLess(s[j], s[i])
         IN  <<s[m]>> \o SortByKey(SubSeq(s, 1, m - 1) \o SubSeq(s, m + 1, Len(s)))

\* The backward loop of _processList over raw[1..i].  temp is tempDict in insertion
\* order; each of its items is the object raw[idx], so a weight written into it is
\* written into the raw list's element too.
RECURSIVE ProcessLoop(_, _, _)
ProcessLoop(raw, i, temp) ==
    IF i = 0 THEN temp
    ELSE LET item == raw[i]
             hit  == {k \in 1..Len(temp) : SameKey(temp[k], item.word, item.code)}
         IN  IF hit # {}
                 THEN ProcessLoop(raw, i - 1,
                          [k \in 1..Len(temp) |->
                              IF k \in hit THEN [temp[k] EXCEPT !.weight = item.weight]
                              ELSE temp[k]])
                 ELSE ProcessLoop(raw, i - 1,
                          Append(temp, [idx |-> i, word |-> item.word,
                                        code |-> item.code, weight |-> item.weight]))

Unit(t) == [word |-> t.word, code |-> t.code, weight |-> t.weight]

\* CacheList(raw): the list after _processList
processList(raw) ==
    LET temp == SortByKey(ProcessLoop(raw, Len(raw), <<>>))
    IN  [k \in 1..Len(temp) |-> Unit(temp[k])]

\* The raw list as _processList leaves it: list.copy() is shallow, so the kept
\* elements are shared with the raw list and carry the weights written into them.
RawAfterProcess(raw) ==
    LET temp == ProcessLoop(raw, Len(raw), <<>>)
    IN  [i \in 1..Len(raw) |->
            IF \E k \in 1..Len(temp) : temp[k].idx = i
                THEN Unit(temp[CHOOSE k \in 1..Len(temp) : temp[k].idx = i])
                ELSE raw[i]]

\* A push that appends without looking for the key.
pushAlwaysAppend(list, val) == Append(list, val)

\* CacheList.push
push(list, val) ==
    IF \E k \in 1..Len(list) : SameKey(list[k], val.word, val.code)
        THEN LET k == CHOOSE k \in 1..Len(list) :
                          /\ SameKey(list[k], val.word, val.code)
                          /\ \A j \in 1..(k - 1) : ~SameKey(list[j], val.word, val.code)
             IN  [list EXCEPT ![k].weight = val.weight]
        ELSE Append(list, val)

RemoveAt(s, k) == SubSeq(s, 1, k - 1) \o SubSeq(s, k + 1, Len(s))

\* CacheList.find: the first match is removed and returned
find(list, word, code) ==
    IF \E k \in 1..Len(list) : SameKey(list[k], word, code)
        THEN LET k == CHOOSE k \in 1..Len(list) :
                          /\ SameKey(list[k], word, code)
                          /\ \A j \in 1..(k - 1) : ~SameKey(list[j], word, code)
             IN  [found |-> TRUE, weight |-> list[k].weight, rest |-> RemoveAt(list, k)]
        ELSE [found |-> FALSE, weight |-> 0, rest |-> list]

\* DeleteCacheList.find: the first entry equal in word, code and str(weight) is
\* removed; weight is the text the caller's value prints as.
DeleteMatchKeyOnly(u, word, code, weight) == u.word = word /\ u.code = code

DeleteMatch(u, word, code, weight) ==
    u.word = word /\ u.code = code /\ IntToStr(u.weight) = weight

deleteFind(list, word, code, weight) ==
    IF \E k \in 1..Len(list) : DeleteMatch(list[k], word, code, weight)
        THEN LET k == CHOOSE k \in 1..Len(list) :
                          /\ DeleteMatch(list[k], word, code, weight)
                          /\ \A j \in 1..(k - 1) : ~DeleteMatch(list[j], word, code, weight)
             IN  [found |-> TRUE, rest |-> RemoveAt(list, k)]
        ELSE [found |-> FALSE, rest |-> list]

---------------------------------------------------------------------------
(* model/calc.py : the rewrite engine                                      *)
(* The five _write* methods share one loop over the original lines and one *)
(* loop over the staged entries the first loop did not consume.  The loop  *)
(* state is [columns, cache, del, out, added]: the schema model, the       *)
(* CacheList, the DeleteCacheList, writeContent, and the entries the       *)
(* second loop emitted.                                                    *)

Tables == {"main", "phrases", "characters", "simple", "english"}

\* A variant of readFile that filters whatever the caller asks for.
readFileAlwaysFilter(content, filterComment) ==
    SelectSeq(content, LAMBDA line : line # <<>> /\ ~StartsWith(line, <<"#">>))

\* common/file.py readFile on a file that can be read: its lines, without the
\* blank lines and the lines starting with "#" when filterComment is set.
readFile(content, filterComment) ==
    IF filterComment
        THEN SelectSeq(content, LAMBDA line : line # <<>> /\ ~StartsWith(line, <<"#">>))
        ELSE content

\* len(fields) < 3 keeps the line as it is; the English table asks for 2 fields
MinFields(tbl) == IF tbl = "english" THEN 2 ELSE 3

\* safeGet's default for the weight field: "0", and "" in _writeSimple
WeightDefault(tbl) == IF tbl = "simple" THEN <<>> ELSE <<"0">>

\* The row written for a matched line: the formatted three columns, and in
\* _writeCharacters the fourth field of a four-field line.
ReplacedRow(tbl, columns, fields, word, code, weight) ==
    LET input == FormatRow(columns.str, word, code, IntToStr(weight))
    IN  IF tbl = "characters" /\ Len(fields) = 4
            THEN input \o <<TAB>> \o fields[4]
            ELSE input

\* One iteration of "for line in lines".  deleteSet is _writeSimple's set of codes
\* of newly staged charset characters (empty for the other tables).
RewriteLine(st, line, tbl, deleteSet) ==
    LET item == Strip(line)
        keep == [st EXCEPT !.out = Append(@, line)]
    IN  IF StartsWith(item, <<"#">>) THEN keep
        ELSE IF ~st.columns.isCompleted
            THEN [keep EXCEPT !.columns = lineHandler(@, item)]
        ELSE LET fields == SplitTab(item)
             IN  IF Len(fields) < MinFields(tbl) THEN keep
                 ELSE LET word   == safeGet(fields, st.columns.text, <<>>)
                          code   == safeGet(fields, st.columns.code, <<>>)
                          weight == safeGet(fields, st.columns.weight, WeightDefault(tbl))
                          c      == find(st.cache, word, code)
                          dNew   == deleteFind(st.del, word, code, IntToStr(c.weight))
                          dOld   == deleteFind(st.del, word, code, weight)
                      IN  IF tbl = "simple" /\ code \in deleteSet THEN st
                          ELSE IF c.found
                              THEN IF dNew.found
                                       THEN [st EXCEPT !.cache = c.rest, !.del = dNew.rest]
                                       ELSE [st EXCEPT
                                               !.cache = c.rest,
                                               !.out = Append(@, ReplacedRow(tbl, st.columns,
                                                           fields, word, code, c.weight))]
                          ELSE IF dOld.found THEN [st EXCEPT !.del = dOld.rest]
                          ELSE keep

RECURSIVE RewriteLines(_, _, _, _, _)
RewriteLines(st, lines, i, tbl, deleteSet) ==
    IF i > Len(lines) THEN st
    ELSE RewriteLines(RewriteLine(st, lines[i], tbl, deleteSet), lines, i + 1, tbl, deleteSet)

\* One iteration of "for item in cacheList" after the lines: an entry matched by
\* the delete cache is skipped, any other is emitted (to the file, or in
\* _writePhrases to the main table's cache).
AppendItem(st, item, tbl, deleteSet) ==
    LET d == deleteFind(st.del, item.word, item.code, IntToStr(item.weight))
    IN  IF tbl = "simple" /\ item.code \in deleteSet THEN st
        ELSE IF d.found THEN [st EXCEPT !.del = d.rest]
        ELSE IF tbl = "phrases" THEN [st EXCEPT !.added = Append(@, item)]
        ELSE [st EXCEPT
                !.out = Append(@, FormatRow(st.columns.str, item.word, item.code,
                                            IntToStr(item.weight))),
                !.added = Append(@, item)]

RECURSIVE AppendItems(_, _, _, _)
AppendItems(st, i, tbl, deleteSet) ==
    IF i > Len(st.cache) THEN st
    ELSE AppendItems(AppendItem(st, st.cache[i], tbl, deleteSet), i + 1, tbl, deleteSet)

\* The two loops of a _write* method over the content of the file.
RewriteTable(tbl, content, cacheList, deleteList, deleteSet) ==
    LET st0 == [columns |-> ColumnsModel, cache |-> cacheList, del |-> deleteList,
                out |-> <<>>, added |-> <<>>]
        st1 == RewriteLines(st0, readFile(content, FALSE), 1, tbl, deleteSet)
    IN  AppendItems(st1, 1, tbl, deleteSet)

\* str.lower() on the letters of the model
LowerTok(t) == IF t = "F" THEN "f" ELSE t
Lower(s) == [i \in 1..Len(s) |-> LowerTok(s[i])]

\* The "while True" loop of _writeEnglish: the code as staged, then with all but
\* its first letter lowered, then all lowered, each pushed once it differs.
RECURSIVE PushVariants(_, _, _, _)
PushVariants(list, word, tempCode, weight) ==
    LET pushed == push(list, [word |-> word, code |-> tempCode, weight |-> weight])
        capital == <<Head(tempCode)>> \o Lower(Tail(tempCode))
        newCode == IF capital = tempCode THEN Lower(tempCode) ELSE capital
    IN  IF newCode = tempCode THEN pushed
        ELSE PushVariants(pushed, word, newCode, weight)

RECURSIVE EnglishCacheList(_, _, _)
EnglishCacheList(raw, i, list) ==
    IF i > Len(raw) THEN list
    ELSE EnglishCacheList(raw, i + 1,
             PushVariants(list, raw[i].word, raw[i].code, raw[i].weight))

writeEnglish(lines, englishCached, englishDeleteCached) ==
    RewriteTable("english", lines, EnglishCacheList(englishCached, 1, <<>>),
                 englishDeleteCached, {})

writeCharacters(lines, charactersCached, charactersDeleteCached) ==
    RewriteTable("characters", lines, processList(charactersCached),
                 charactersDeleteCached, {})

writePhrases(lines, phrasesCached, phrasesDeleteCached) ==
    RewriteTable("phrases", lines, processList(phrasesCached),
                 phrasesDeleteCached, {})

writeSimple(lines, simpleCached, simpleDeleteCached, deleteSet) ==
    RewriteTable("simple", lines, processList(simpleCached),
                 simpleDeleteCached, deleteSet)

writeMain(lines, tigressCached, tigressDeleteCached) ==
    RewriteTable("main", lines, processList(tigressCached),
                 tigressDeleteCached, {})

\* The _write* method of a table, for a table chosen by name
writeTable(tbl, lines, rawCached, rawDeleteCached) ==
    IF tbl = "english" THEN writeEnglish(lines, rawCached, rawDeleteCached)
    ELSE IF tbl = "characters" THEN writeCharacters(lines, rawCached, rawDeleteCached)
    ELSE IF tbl = "phrases" THEN writePhrases(lines, rawCached, rawDeleteCached)
    ELSE IF tbl = "simple" THEN writeSimple(lines, rawCached, rawDeleteCached, {})
    ELSE writeMain(lines, rawCached, rawDeleteCached)

\* The raw upsert cache as the method leaves it (_writeEnglish copies every entry)
cachedAfterWrite(tbl, rawCached) ==
    IF tbl = "english" THEN rawCached ELSE RawAfterProcess(rawCached)

---------------------------------------------------------------------------
(* model/calc.py : the index                                               *)
(* A dict is a function over its keys; a code unit is [word, weight,       *)
(* source].  characterDict and charset are keyed by one-character strings. *)

\* d[k] = v
Put(d, k, v) == (k :> v) @@ d

\* getTableSource of the configured file names
mainSourceName       == "main"
simpleSourceName     == "simple"
phrasesSourceName    == "phrases"
charactersSourceName == "characters"
englishSourceName    == "english"

\* "for ch in letters" of _parseMain, over the letters of the model: every letter is
\* given its lower case as its code
SeedLetters(chd) == [x \in {<<l>> : l \in Letters} |-> <<LowerTok(x[1])>>] @@ chd

\* One iteration of "for line in lines" of _parseTigress; st is
\* [columns, characterDict, codeDict].
parseTigressLine(st, line, tableName) ==
    LET item == Strip(line)
    IN  IF ~st.columns.isCompleted
            THEN [st EXCEPT !.columns = lineHandler(@, item)]
        ELSE LET fields == SplitTab(item)
             IN  IF Len(fields) < 3 THEN st
                 ELSE LET word   == safeGet(fields, st.columns.text, <<>>)
                          code   == safeGet(fields, st.columns.code, <<>>)
                          weight == strToInt(safeGet(fields, st.columns.weight, <<>>))
                          unit   == [word |-> word, weight |-> weight, source |-> tableName]
                          chd    == st.characterDict
                          cd     == st.codeDict
                      IN  [st EXCEPT
                             !.characterDict =
                                 IF Len(word) = 1
                                     THEN IF word \in DOMAIN chd
                                              THEN IF Len(chd[word]) < Len(code)
                                                       THEN Put(chd, word, code)
                                                       ELSE chd
                                              ELSE Put(chd, word, code)
                                     ELSE chd,
                             !.codeDict =
                                 IF code \in DOMAIN cd THEN Put(cd, code, Append(cd[code], unit))
                                 ELSE IF code # <<>> THEN Put(cd, code, <<unit>>)
                                 ELSE cd]

RECURSIVE parseTigressLines(_, _, _, _)
parseTigressLines(st, lines, i, tableName) ==
    IF i > Len(lines) THEN st
    ELSE parseTigressLines(parseTigressLine(st, lines[i], tableName), lines, i + 1, tableName)

\* _parseTigress: the two dicts after the lines of one table were read into them
parseTigress(chd, cd, lines, tableName) ==
    LET st == parseTigressLines([columns |-> ColumnsModel, characterDict |-> chd,
                                 codeDict |-> cd], lines, 1, tableName)
    IN  [characterDict |-> st.characterDict, codeDict |-> st.codeDict]

\* item.startswith("- ") and item.split(" ")[1], on a stripped line
IsListItem(item) ==
    /\ item # <<>>
    /\ \/ Head(item) = "- " /\ Len(item) >= 2
       \/ Head(item) \in {"- text", "- code", "- weight"}
ListItemName(item) ==
    IF Head(item) = "- " THEN item[2]
    ELSE IF Head(item) = "- text" THEN "text"
    ELSE IF Head(item) = "- code" THEN "code"
    ELSE "weight"

\* The import_tables scan of _parseMain: the names listed under the first
\* "import_tables:" line, up to the first line that is not a list item
RECURSIVE ImportScan(_, _, _, _)
ImportScan(lines, i, inScope, acc) ==
    IF i > Len(lines) THEN acc
    ELSE LET item == Strip(lines[i])
         IN  IF inScope
                 THEN IF IsListItem(item)
                          THEN ImportScan(lines, i + 1, TRUE, Append(acc, ListItemName(item)))
                          ELSE acc
             ELSE IF StartsWith(item, <<"import_tables:">>)
                 THEN ImportScan(lines, i + 1, TRUE, acc)
             ELSE ImportScan(lines, i + 1, FALSE, acc)

\* The content readFile finds at a path: nothing when the file does not exist
FileContent(fs, name) ==
    IF name \in DOMAIN fs /\ fs[name].exists THEN fs[name].lines ELSE <<>>

\* "for tableName in importTables" of _parseMain
RECURSIVE parseImports(_, _, _, _)
parseImports(st, fs, importTables, i) ==
    IF i > Len(importTables) THEN st
    ELSE LET tableName == importTables[i]
         IN  CHOOSE r \in
                 {parseImports(next, fs, importTables, i + 1) : next \in
                    {IF tableName \in DOMAIN fs /\ fs[tableName].exists
                         THEN parseTigress(st.characterDict, st.codeDict,
                                           readFile(fs[tableName].lines, TRUE), tableName)
                         ELSE st}} : TRUE

\* _parseCharset: the first field of every two-field line, and the letters
RECURSIVE parseCharsetLines(_, _, _)
parseCharsetLines(cs, lines, i) ==
    IF i > Len(lines) THEN cs
    ELSE LET fields == SplitTab(Strip(lines[i]))
         IN  parseCharsetLines(IF Len(fields) # 2 THEN cs ELSE cs \cup {fields[1]},
                               lines, i + 1)

parseCharset(cs, fs) ==
    parseCharsetLines(cs, readFile(FileContent(fs, "charset"), TRUE), 1)
        \cup {<<l>> : l \in Letters}

\* _parseMain: nothing when the index was loaded before; else the imported tables,
\* the main table, the letters and the charset are read into it
parseMain(isParse, chd, cd, cs, fs) ==
    LET readLines == readFile(FileContent(fs, "main"), TRUE)
        importTables == ImportScan(readLines, 1, FALSE, <<>>)
    IN  IF isParse
            THEN [characterDict |-> chd, codeDict |-> cd, charset |-> cs]
            ELSE CHOOSE r \in
                     {[characterDict |-> SeedLetters(st2.characterDict),
                       codeDict |-> st2.codeDict,
                       charset |-> parseCharset(cs, fs)] : st2 \in
                        {parseTigress(st1.characterDict, st1.codeDict, readLines,
                                      mainSourceName) : st1 \in
                           {parseImports([characterDict |-> chd, codeDict |-> cd], fs,
                                         importTables, 1)}}} : TRUE

\* One iteration of "for line in lines" of _parseEnglish; st is [columns, englishDict]
parseEnglishLine(st, line) ==
    LET item == Strip(line)
    IN  IF ~st.columns.isCompleted
            THEN [st EXCEPT !.columns = lineHandler(@, item)]
        ELSE LET fields == SplitTab(item)
             IN  IF Len(fields) < 2 THEN st
                 ELSE LET word   == safeGet(fields, st.columns.text, <<>>)
                          code   == safeGet(fields, st.columns.code, <<>>)
                          weight == strToInt(safeGet(fields, st.columns.weight, <<>>))
                          unit   == [word |-> word, weight |-> weight,
                                     source |-> englishSourceName]
                          ed     == st.englishDict
                      IN  [st EXCEPT !.englishDict =
                             IF code \in DOMAIN ed THEN Put(ed, code, Append(ed[code], unit))
                             ELSE IF code # <<>> THEN Put(ed, code, <<unit>>)
                             ELSE ed]

RECURSIVE parseEnglishLines(_, _, _)
parseEnglishLines(st, lines, i) ==
    IF i > Len(lines) THEN st
    ELSE parseEnglishLines(parseEnglishLine(st, lines[i]), lines, i + 1)

\* _parseEnglish: nothing when the English index was loaded before
parseEnglish(isParse, ed, fs) ==
    IF isParse THEN ed
    ELSE parseEnglishLines([columns |-> ColumnsModel, englishDict |-> ed],
                           readFile(FileContent(fs, "english"), TRUE), 1).englishDict

\* _getCode: the first codeSize letters of the character's code, "" when unknown
getCode(chd, char, codeSize) ==
    IF <<char>> \in DOMAIN chd THEN Take(chd[<<char>>], codeSize) ELSE <<>>

\* _getRange
getRange(cs, word) == \A i \in 1..Len(word) : <<word[i]>> \in cs

\* _isSimple
isSimple(word, code) ==
    LET wordLen == Len(word)
        codeLen == Len(code)
    IN  IF codeLen = 0 \/ codeLen > 3 THEN FALSE
        ELSE IF wordLen <= 1 THEN FALSE
        ELSE IF wordLen = 2 THEN codeLen <= 2
        ELSE IF wordLen = 3 THEN codeLen <= 3
        ELSE codeLen = 1

\* A variant that takes the fourth character of the word.
LastCharFourth(cleanWord) == cleanWord[4]

\* cleanWord[-1]: the character a word of four or more takes its fourth fragment from
LastChar(cleanWord) == cleanWord[Len(cleanWord)]

\* The code encode builds for a non-English clean word
encodeCode(chd, cleanWord) ==
    LET newWordLen == Len(cleanWord)
    IN  IF newWordLen = 1 THEN getCode(chd, cleanWord[1], 4)
        ELSE IF newWordLen = 2
            THEN getCode(chd, cleanWord[1], 2) \o getCode(chd, cleanWord[2], 2)
        ELSE IF newWordLen = 3
            THEN getCode(chd, cleanWord[1], 1) \o getCode(chd, cleanWord[2], 1)
                 \o getCode(chd, cleanWord[3], 2)
        ELSE getCode(chd, cleanWord[1], 1) \o getCode(chd, cleanWord[2], 1)
             \o getCode(chd, cleanWord[3], 1) \o getCode(chd, LastChar(cleanWord), 1)

\* encode on a loaded index: the EncodeResult of a word
encode(chd, cd, cs, word) ==
    LET cleanWord == getCleanWord(word)
        isEnglish == isPureEnglish(cleanWord)
        newCode   == IF isEnglish THEN cleanWord ELSE encodeCode(chd, cleanWord)
    IN  IF Len(cleanWord) = 0
            THEN [cleanWord |-> <<>>, isEnglish |-> FALSE, code |-> <<>>,
                  weight |-> 0, range |-> FALSE]
            ELSE [cleanWord |-> cleanWord, isEnglish |-> isEnglish, code |-> newCode,
                  weight |-> IF ~isEnglish /\ newCode # <<>> /\ newCode \notin DOMAIN cd
                                 THEN 255 ELSE 0,
                  range |-> getRange(cs, cleanWord)]

\* list.sort(key=weight, reverse=True): descending, equal weights keep their order
RECURSIVE SortDesc(_)
SortDesc(s) ==
    IF s = <<>> THEN <<>>
    ELSE LET m == CHOOSE i \in 1..Len(s) :
                      /\ \A j \in 1..Len(s) : s[j].weight <= s[i].weight
                      /\ \A j \in 1..(i - 1) : s[j].weight < s[i].weight
         IN  <<s[m]>> \o SortDesc(RemoveAt(s, m))

\* query: the entries under a code with their range flag, and the index as the
\* call leaves it (the entries of the code sorted).  cd and cs are the index after
\* _parseMain; an empty code and an English query read neither.
query(cd, ed, cs, code, isEnglish) ==
    IF Len(code) = 0 THEN [results |-> <<>>, codeDict |-> cd]
    ELSE IF isEnglish
        THEN [results |-> IF code \in DOMAIN ed
                              THEN [i \in 1..Len(ed[code]) |->
                                      [word |-> ed[code][i].word, weight |-> ed[code][i].weight,
                                       source |-> ed[code][i].source, range |-> TRUE]]
                              ELSE <<>>,
              codeDict |-> cd]
    ELSE IF code \in DOMAIN cd
        THEN LET sorted == SortDesc(cd[code])
             IN  [results |-> [i \in 1..Len(sorted) |->
                                 [word |-> sorted[i].word, weight |-> sorted[i].weight,
                                  source |-> sorted[i].source,
                                  range |-> getRange(cs, getCleanWord(sorted[i].word))]],
                  codeDict |-> Put(cd, code, sorted)]
    ELSE [results |-> <<>>, codeDict |-> cd]

\* Position of the first element of a list that satisfies a test; 0 when none does
FirstWhere(list, Test(_)) ==
    IF \E k \in 1..Len(list) : Test(list[k])
        THEN CHOOSE k \in 1..Len(list) :
                 Test(list[k]) /\ \A j \in 1..(k - 1) : ~Test(list[j])
        ELSE 0

\* add, the loop over the entries of the code: the first entry of the word decides
addSource(cd, word, code) ==
    LET k == IF code \in DOMAIN cd
                 THEN FirstWhere(cd[code], LAMBDA u : u.word = word) ELSE 0
    IN  IF k = 0 THEN "NONE"
        ELSE IF cd[code][k].source = phrasesSourceName THEN "PHRASES"
        ELSE IF cd[code][k].source = charactersSourceName THEN "CHARACTERS"
        ELSE "NONE"

\* add: the CacheStatus returned
addStatus(cd, simpleFileStatus, englishFileStatus, word, code) ==
    LET cleanWord == getCleanWord(word)
    IN  IF isPureEnglish(cleanWord)
            THEN IF englishFileStatus THEN "ENGLISH" ELSE "ENGLISH_EXCEPTION"
        ELSE IF cleanWord # <<>> /\ code # <<>>
            THEN IF isSimple(cleanWord, code)
                     THEN IF simpleFileStatus THEN "SIMPLE" ELSE "SIMPLE_EXCEPTION"
                 ELSE IF addSource(cd, word, code) # "NONE" THEN addSource(cd, word, code)
                 ELSE IF Len(word) = 1 THEN "NEW_CHARACTERS"
                 ELSE "MAIN"
        ELSE "UNKNOWN"

\* A variant that stages a new character with the main table's entries.
addCacheNewToMain(status) ==
    IF status \in {"MAIN", "NEW_CHARACTERS"} THEN "main"
    ELSE IF status = "PHRASES" THEN "phrases"
    ELSE IF status = "CHARACTERS" THEN "characters"
    ELSE IF status = "SIMPLE" THEN "simple"
    ELSE IF status = "ENGLISH" THEN "english"
    ELSE "none"

\* add: the upsert cache each branch appends to
addCache(status) ==
    IF status = "MAIN" THEN "main"
    ELSE IF status = "PHRASES" THEN "phrases"
    ELSE IF status \in {"CHARACTERS", "NEW_CHARACTERS"} THEN "characters"
    ELSE IF status = "SIMPLE" THEN "simple"
    ELSE IF status = "ENGLISH" THEN "english"
    ELSE "none"

\* add: the source the index update runs with
addIndexSource(status) ==
    IF status = "SIMPLE" THEN simpleSourceName
    ELSE IF status = "PHRASES" THEN phrasesSourceName
    ELSE IF status \in {"CHARACTERS", "NEW_CHARACTERS"} THEN charactersSourceName
    ELSE mainSourceName

\* add, "update the current dict": the first entry of the word and source takes the
\* weight, or a new entry is appended
addToCodeDict(cd, code, word, weight, source) ==
    LET unit == [word |-> word, weight |-> weight, source |-> source]
        k == IF code \in DOMAIN cd
                 THEN FirstWhere(cd[code], LAMBDA u : u.word = word /\ u.source = source)
                 ELSE 0
    IN  IF code \notin DOMAIN cd THEN Put(cd, code, <<unit>>)
        ELSE IF k = 0 THEN Put(cd, code, Append(cd[code], unit))
        ELSE Put(cd, code, [cd[code] EXCEPT ![k].weight = weight])

\* add, "update the current English dict": the first entry of the word takes the weight
addToEnglishDict(ed, code, word, weight) ==
    LET unit == [word |-> word, weight |-> weight, source |-> englishSourceName]
        k == IF code \in DOMAIN ed
                 THEN FirstWhere(ed[code], LAMBDA u : u.word = word) ELSE 0
    IN  IF code \notin DOMAIN ed THEN Put(ed, code, <<unit>>)
        ELSE IF k = 0 THEN Put(ed, code, Append(ed[code], unit))
        ELSE Put(ed, code, [ed[code] EXCEPT ![k].weight = weight])

\* add, "for ch in cleanWord": the characters outside the charset
addCharset(cs, cleanWord) ==
    {<<cleanWord[i]>> : i \in {j \in 1..Len(cleanWord) : ~getRange(cs, <<cleanWord[j]>>)}}

\* A variant that leaves the index as it is.
editKeepIndex(d, item, bySource) == d

\* edit, "update the current dict": the first entry of the word (and, outside the
\* English index, of the source) takes the weight
editIndex(d, item, bySource) ==
    LET k == FirstWhere(d[item.code],
                        LAMBDA u : u.word = item.word /\ (bySource => u.source = item.source))
    IN  IF k = 0 THEN d ELSE Put(d, item.code, [d[item.code] EXCEPT ![k].weight = item.weight])

\* edit: the upsert cache of the entry's source, and the status returned
editCache(source) ==
    IF source = englishSourceName THEN "english"
    ELSE IF source = simpleSourceName THEN "simple"
    ELSE IF source = phrasesSourceName THEN "phrases"
    ELSE IF source = charactersSourceName THEN "characters"
    ELSE IF source = mainSourceName THEN "main"
    ELSE "none"

editStatus(source) ==
    IF source = englishSourceName THEN "ENGLISH"
    ELSE IF source = simpleSourceName THEN "SIMPLE"
    ELSE IF source = phrasesSourceName THEN "PHRASES"
    ELSE IF source = charactersSourceName THEN "CHARACTERS"
    ELSE IF source = mainSourceName THEN "MAIN"
    ELSE "UNKNOWN"

\* delete: the position of the entry it removes (0: none).  The English index is
\* searched by word and weight, the other by word, weight and source.
deleteAt(d, item, bySource) ==
    IF item.code \in DOMAIN d
        THEN FirstWhere(d[item.code],
                 LAMBDA u : /\ u.word = item.word /\ u.weight = item.weight
                            /\ (bySource => u.source = item.source))
        ELSE 0

\* delete: self._codeDict[code].remove(unit); the code stays a key of the dict
deleteFromIndex(d, item, bySource) ==
    LET k == deleteAt(d, item, bySource)
    IN  IF k = 0 THEN d ELSE Put(d, item.code, RemoveAt(d[item.code], k))

\* delete: the delete cache the removed entry is recorded in
deleteCache(source) ==
    IF source = englishSourceName THEN "english"
    ELSE IF source = mainSourceName THEN "main"
    ELSE IF source = simpleSourceName THEN "simple"
    ELSE IF source = phrasesSourceName THEN "phrases"
    ELSE IF source = charactersSourceName THEN "characters"
    ELSE "none"

---------------------------------------------------------------------------
(* model/calc.py : writer                                                  *)

SetFile(fs, name, lines) == [fs EXCEPT ![name] = [exists |-> TRUE, lines |-> lines]]

\* The orders a for loop can visit a set in
Orders(S) ==
    {o \in [1..Cardinality(S) -> S] :
        \A i, j \in 1..Cardinality(S) : i # j => o[i] # o[j]}

\* A file opened with "a+": a newline is written first when the content does not
\* end with one.  The files of the model end with a newline, so this is the blank
\* line an empty file gets.
AppendMode(lines) == IF lines = <<>> THEN << <<>> >> ELSE lines

\* _writeCharset: one line per cached character, in the order the set is visited
writeCharset(lines, order) ==
    AppendMode(lines) \o [i \in 1..Len(order) |-> order[i] \o <<TAB, "t">>]

\* common/pinyin.py over the characters of the model: the syllables lazy_pinyin
\* gives, the alphabetic ones kept
PinyinOf(ch) ==
    IF ch = "NI" THEN <<"ni">> ELSE IF ch = "HAO" THEN <<"hao">>
    ELSE IF ch = "MA" THEN <<"ma">> ELSE IF ch \in Letters THEN <<LowerTok(ch)>> ELSE <<>>

RECURSIVE JoinWith(_, _)
JoinWith(parts, sep) ==
    IF parts = <<>> THEN <<>>
    ELSE IF Len(parts) = 1 THEN parts[1]
    ELSE parts[1] \o <<sep>> \o JoinWith(Tail(parts), sep)

Syllables(word) ==
    SelectSeq([i \in 1..Len(word) |-> PinyinOf(word[i])], LAMBDA p : p # <<>>)

getPinyin(word) == JoinWith(Syllables(word), SP)
getTonePinyin(word) == JoinWith(Syllables(word), ".")

\* The schema of the pinyin table: its lines fed to a ColumnsModel until completed
RECURSIVE pinyinColumns(_, _, _)
pinyinColumns(c, lines, i) ==
    IF i > Len(lines) \/ c.isCompleted THEN c
    ELSE pinyinColumns(lineHandler(c, Strip(lines[i])), lines, i + 1)

\* A variant that gives a row to every syllable of the word.
writePinyinPerSyllable(lines, order) ==
    LET c == pinyinColumns(ColumnsModel, lines, 1)
    IN  AppendMode(lines) \o
        [i \in 1..Len(order) |->
            FormatRow(c.str, order[i], getPinyin(getCleanWord(order[i])), <<"0">>)] \o
        [i \in 1..Len(order) |->
            FormatRow(c.str, order[i], Syllables(getCleanWord(order[i]))[1], <<"0">>)]

\* _writeMain, the pinyin table: one row per word newly appended to the main table
writePinyin(lines, order) ==
    LET c == pinyinColumns(ColumnsModel, lines, 1)
    IN  AppendMode(lines) \o
        [i \in 1..Len(order) |->
            FormatRow(c.str, order[i], getPinyin(getCleanWord(order[i])), <<"0">>)]

\* _writeMain, the pinyin tip table
writePinyinTip(lines, order) ==
    lines \o [i \in 1..Len(order) |->
                 order[i] \o <<TAB, "[">> \o getTonePinyin(getCleanWord(order[i])) \o <<"]">>]

\* The steps of writer, one per table, in its order.  s is [files, cached,
\* pinyinCacheSet, writeState]; d is the delete caches.  A _write* method runs when
\* its caches are not empty; the caches are read and never emptied.
writerEnglish(s, d) ==
    IF Len(s.cached["english"]) > 0 \/ Len(d["english"]) > 0
        THEN [s EXCEPT !.files = SetFile(@, "english",
                                     writeEnglish(FileContent(@, "english"),
                                                  s.cached["english"], d["english"]).out),
                       !.writeState = TRUE]
        ELSE s

writerCharset(s, csc, charsetOrder) ==
    IF csc # {}
        THEN [s EXCEPT !.files = SetFile(@, "charset",
                                     writeCharset(FileContent(@, "charset"), charsetOrder)),
                       !.writeState = TRUE]
        ELSE s

writerCharacters(s, d) ==
    IF Len(s.cached["characters"]) > 0 \/ Len(d["characters"]) > 0
        THEN [s EXCEPT !.files = SetFile(@, "characters",
                                     writeCharacters(FileContent(@, "characters"),
                                                     s.cached["characters"],
                                                     d["characters"]).out),
                       !.cached["characters"] = RawAfterProcess(@),
                       !.writeState = TRUE]
        ELSE s

\* The entries _writePhrases finds no line for join the main table's cache
writerPhrases(s, d) ==
    IF Len(s.cached["phrases"]) > 0 \/ Len(d["phrases"]) > 0
        THEN LET r == writePhrases(FileContent(s.files, "phrases"), s.cached["phrases"],
                                   d["phrases"])
             IN  [s EXCEPT !.files = SetFile(@, "phrases", r.out),
                           !.cached["phrases"] = RawAfterProcess(@),
                           !.cached["main"] = @ \o r.added,
                           !.writeState = TRUE]
        ELSE s

\* A variant that rewrites the simple table only when a simple entry is staged.
writerSimpleStagedOnly(s, d, csc, chd) ==
    IF Len(s.cached["simple"]) > 0 \/ Len(d["simple"]) > 0
        THEN [s EXCEPT !.files = SetFile(@, "simple",
                                     writeSimple(FileContent(@, "simple"), s.cached["simple"],
                                                 d["simple"],
                                                 {getCode(chd, ch[1], 3) : ch \in csc}).out),
                       !.cached["simple"] = RawAfterProcess(@),
                       !.writeState = TRUE]
        ELSE s

writerSimple(s, d, csc, chd) ==
    IF Len(s.cached["simple"]) > 0 \/ Len(d["simple"]) > 0 \/ csc # {}
        THEN [s EXCEPT !.files = SetFile(@, "simple",
                                     writeSimple(FileContent(@, "simple"), s.cached["simple"],
                                                 d["simple"],
                                                 {getCode(chd, ch[1], 3) : ch \in csc}).out),
                       !.cached["simple"] = RawAfterProcess(@),
                       !.writeState = TRUE]
        ELSE s

writerMain(s, d) ==
    IF Len(s.cached["main"]) > 0 \/ Len(d["main"]) > 0
        THEN LET r == writeMain(FileContent(s.files, "main"), s.cached["main"], d["main"])
             IN  [s EXCEPT !.files = SetFile(@, "main", r.out),
                           !.cached["main"] = RawAfterProcess(@),
                           !.pinyinCacheSet = {r.added[i].word : i \in 1..Len(r.added)},
                           !.writeState = TRUE]
        ELSE s

\* writer up to the rewrite of the main table: each table is written once the one
\* before it has been, on the files and caches that write left
writerTables(fs, c, d, csc, chd, charsetOrder) ==
    CHOOSE s6 \in
        {writerMain(s5, d) : s5 \in
          {writerSimple(s4, d, csc, chd) : s4 \in
            {writerPhrases(s3, d) : s3 \in
              {writerCharacters(s2, d) : s2 \in
                {writerCharset(s1, csc, charsetOrder) : s1 \in
                  {writerEnglish([files |-> fs, cached |-> c, pinyinCacheSet |-> {},
                                  writeState |-> FALSE], d)}}}}}} : TRUE

\* _writeMain, the appends to the pinyin and pinyin tip tables
writerPinyin(fs, status, pinyinOrder) ==
    LET fs1 == IF status.pinyin /\ Len(pinyinOrder) > 0
                   THEN SetFile(fs, "pinyin", writePinyin(FileContent(fs, "pinyin"), pinyinOrder))
                   ELSE fs
    IN  IF status.pinyintip /\ Len(pinyinOrder) > 0
            THEN SetFile(fs1, "pinyintip",
                         writePinyinTip(FileContent(fs1, "pinyintip"), pinyinOrder))
            ELSE fs1

---------------------------------------------------------------------------
(* Bounds and the inputs drawn from them                                   *)

MaxRaw      == 3   \* longest raw list a CacheList is constructed from
MaxCacheOps == 3   \* calls made on one CacheList
MaxTotal    == 3   \* body lines plus staged upserts plus staged deletes of one rewrite

MaxWordLen  == 5   \* longest word given to encode on its own
MaxOps      == 4   \* add, edit, delete and writer calls of one session
MaxAdds     == 1   \* add calls among them

Weights == {1, 2}

Row(word, code, weight) == word \o <<TAB>> \o code \o <<TAB>> \o IntToStr(weight)

\* The header every table of the model starts with
DefaultHeader ==
    << <<"columns:">>, <<"- text">>, <<"- code">>, <<"- weight">>, <<"...">> >>

\* The header of a main table: the columns, then the tables it imports
MainHeader ==
    << <<"columns:">>, <<"- text">>, <<"- code">>, <<"- weight">>,
       <<"import_tables:">>, <<"- ", "characters">>, <<"- ", "phrases">>,
       <<"- ", "simple">>, <<"...">> >>

\* The characters tables the encoder is tried on: none, a code longer than four
\* letters and a code of one letter, one character listed twice, one character only
EncodeCharacters ==
    { <<>>,
      << Row(<<"NI">>, <<"a", "b", "c", "d", "e">>, 1), Row(<<"HAO">>, <<"c">>, 1) >>,
      << Row(<<"NI">>, <<"a", "b">>, 1), Row(<<"NI">>, <<"a", "b", "e", "x">>, 1),
         Row(<<"HAO">>, <<"c", "d", "f", "x">>, 1) >>,
      << Row(<<"HAO">>, <<"c", "d", "f", "x">>, 1) >> }

EncodeDisk(body) ==
    [name \in {"main", "characters"} |->
        [exists |-> TRUE,
         lines |-> IF name = "main" THEN MainHeader ELSE DefaultHeader \o body]]

\* The characters words are made of: two Chinese characters, a symbol, a letter
EncodeChars == {"NI", "HAO", "!", "a"}

\* The tables of a session
FileNames ==
    {"main", "characters", "phrases", "simple", "english", "charset", "pinyin", "pinyintip"}

NiHao == <<"NI", "HAO">>
HaoNi == <<"HAO", "NI">>

DiskLines(name) ==
    IF name = "main"
        THEN MainHeader \o << Row(NiHao, <<"a", "b", "c", "d">>, 1) >>
    ELSE IF name = "characters"
        THEN DefaultHeader \o << Row(<<"NI">>, <<"a", "b", "e", "x">>, 1),
                                 Row(<<"HAO">>, <<"c", "d", "f", "x">>, 1) >>
    ELSE IF name = "phrases"
        THEN DefaultHeader \o << Row(HaoNi, <<"c", "d", "a", "b">>, 1) >>
    ELSE IF name = "simple"
        THEN DefaultHeader \o << Row(NiHao, <<"a", "b">>, 1) >>
    ELSE IF name = "english"
        THEN DefaultHeader \o << Row(<<"f", "o">>, <<"f", "o">>, 1) >>
    ELSE IF name = "charset"
        THEN << <<"NI", TAB, "t">>, <<"HAO", TAB, "t">> >>
    ELSE IF name = "pinyin"
        THEN DefaultHeader \o << <<"NI", "HAO", TAB, "ni", SP, "hao", TAB, "0">> >>
    ELSE <<>>

\* The optional tables: present in one configuration, configured but not on disk in
\* the other
OptionalFiles == {"simple", "english", "pinyin", "pinyintip"}

Disk(full) ==
    [name \in FileNames |->
        IF full \/ name \notin OptionalFiles
            THEN [exists |-> TRUE, lines |-> DiskLines(name)]
            ELSE [exists |-> FALSE, lines |-> <<>>]]

\* What add is called with: an entry of the main table, of the phrases, of the
\* characters, a new character, a short code, an English word, a symbol
AddInputs ==
    { <<NiHao, <<"a", "b", "c", "d">>, 2>>,
      <<HaoNi, <<"c", "d", "a", "b">>, 2>>,
      <<<<"NI">>, <<"a", "b", "e", "x">>, 2>>,
      <<<<"MA">>, <<"e", "f", "o", "x">>, 2>>,
      <<NiHao, <<"a", "b">>, 2>>,
      <<<<"f", "o">>, <<"f", "o">>, 2>>,
      <<<<"!">>, <<"a", "b">>, 2>> }

\* The entries edit and delete are called on: one of the main table, one of the
\* phrases, one of the English table
EditKeys ==
    { <<NiHao, <<"a", "b", "c", "d">>, mainSourceName>>,
      <<HaoNi, <<"c", "d", "a", "b">>, phrasesSourceName>>,
      <<<<"f", "o">>, <<"f", "o">>, englishSourceName>> }

EncodeInputs == {NiHao, <<"f", "o">>, <<"!">>}

QueryInputs ==
    { <<<<"a", "b", "c", "d">>, FALSE>>, <<<<"f", "o">>, TRUE>>, <<<<>>, FALSE>> }

SeqsOf(S, n) == [1..n -> S]
SeqsUpTo(S, n) == UNION {SeqsOf(S, k) : k \in 0..n}

WordA == <<"NI", "HAO">>
WordB == <<"HAO">>
CodeA == <<"a", "b">>
CodeB == <<"a">>

\* Staged entries: two keys, two weights each
StagedUnits ==
    {[word |-> k[1], code |-> k[2], weight |-> w] :
        k \in {<<WordA, CodeA>>, <<WordB, CodeB>>}, w \in {1, 2}}

\* Entries for a CacheList on its own: three keys, two of them sharing a word
CacheUnits ==
    {[word |-> k[1], code |-> k[2], weight |-> w] :
        k \in {<<WordA, CodeA>>, <<WordB, CodeB>>, <<WordB, CodeA>>}, w \in {1, 2}}

\* A table file starts with its header, or has none
Headers == {DefaultHeader, <<>>}

\* Lines a table body is made of: rows of the two keys, a comment, a row of two
\* fields, a blank line
BodyLines ==
    { <<"NI", "HAO", TAB, "a", "b", TAB, "1">>,
      <<"NI", "HAO", TAB, "a", "b", TAB, "2">>,
      <<"HAO", TAB, "a", TAB, "1">>,
      <<"#", "x">>,
      <<"x", TAB, "a">>,
      <<>> }

NoCall == [op |-> "none"]

IdleCache   == cl = <<>> /\ clRet = NoCall /\ clOps = 0
IdleRewrite == rwIn = NoCall /\ rwOut = NoCall /\ rwOut2 = NoCall /\ rwPc = "idle"
IdleEncode  == encDict = <<>> /\ encRet = NoCall
IdleSession ==
    /\ files = <<>> /\ fileStatus = <<>> /\ characterDict = <<>> /\ codeDict = <<>> /\ englishDict = <<>>
    /\ charset = {} /\ isParseTigress = FALSE /\ isParseEnglish = FALSE
    /\ cached = <<>> /\ deleteCached = <<>> /\ charsetCached = {}
    /\ ret = NoCall /\ hist = <<>> /\ nOps = 0

---------------------------------------------------------------------------
(* SpecCache: a CacheList constructed from a raw list, then pushed to and  *)
(* searched                                                                *)

Construct(raw) ==
    /\ clOps = 0
    /\ cl' = processList(raw)
    /\ clRet' = [op |-> "construct", raw |-> raw, pre |-> <<>>]
    /\ clOps' = 1
    /\ UNCHANGED <<rewriteVars, encodeVars, sessionVars>>

Push(val) ==
    /\ clOps \in 1..(MaxCacheOps - 1)
    /\ cl' = push(cl, val)
    /\ clRet' = [op |-> "push", val |-> val, pre |-> cl]
    /\ clOps' = clOps + 1
    /\ UNCHANGED <<rewriteVars, encodeVars, sessionVars>>

Find(word, code) ==
    /\ clOps \in 1..(MaxCacheOps - 1)
    /\ cl' = find(cl, word, code).rest
    /\ clRet' = [op |-> "find", word |-> word, code |-> code,
                 found |-> find(cl, word, code).found, pre |-> cl]
    /\ clOps' = clOps + 1
    /\ UNCHANGED <<rewriteVars, encodeVars, sessionVars>>

CacheInit == IdleCache /\ IdleRewrite /\ IdleEncode /\ IdleSession

CacheNext ==
    \/ \E raw \in SeqsUpTo(CacheUnits, MaxRaw) : Construct(raw)
    \/ \E val \in CacheUnits : Push(val)
    \/ \E u \in CacheUnits : Find(u.word, u.code)

SpecCache == CacheInit /\ [][CacheNext]_vars

---------------------------------------------------------------------------
(* SpecRewrite: one table file rewritten once, then once more with the     *)
(* caches as the first pass left them                                      *)

RewriteInit ==
    /\ IdleCache /\ IdleEncode /\ IdleSession
    /\ \E b \in 0..MaxTotal :
         \E c \in 0..(MaxTotal - b) :
           \E d \in 0..(MaxTotal - b - c) :
             \E tbl \in Tables, header \in Headers, body \in SeqsOf(BodyLines, b),
                cache \in SeqsOf(StagedUnits, c), del \in SeqsOf(StagedUnits, d) :
               rwIn = [tbl |-> tbl, lines |-> header \o body,
                       cache |-> cache, del |-> del]
    /\ rwOut = NoCall /\ rwOut2 = NoCall /\ rwPc = "init"

RewriteOnce ==
    /\ rwPc = "init"
    /\ LET r == writeTable(rwIn.tbl, rwIn.lines, rwIn.cache, rwIn.del)
       IN  rwOut' = [out |-> r.out, added |-> r.added]
    /\ rwPc' = "once"
    /\ UNCHANGED <<rwIn, rwOut2, cacheVars, encodeVars, sessionVars>>

RewriteTwice ==
    /\ rwPc = "once"
    /\ LET r == writeTable(rwIn.tbl, rwOut.out,
                           cachedAfterWrite(rwIn.tbl, rwIn.cache), rwIn.del)
       IN  rwOut2' = [out |-> r.out, added |-> r.added]
    /\ rwPc' = "twice"
    /\ UNCHANGED <<rwIn, rwOut, cacheVars, encodeVars, sessionVars>>

RewriteNext == RewriteOnce \/ RewriteTwice

SpecRewrite == RewriteInit /\ [][RewriteNext]_vars

---------------------------------------------------------------------------
(* SpecEncode: encode on an index loaded from a characters table            *)

EncodeInit ==
    /\ IdleCache /\ IdleRewrite /\ IdleSession
    /\ \E body \in EncodeCharacters :
         encDict = parseMain(FALSE, <<>>, <<>>, {}, EncodeDisk(body))
    /\ encRet = NoCall

EncodeWord(word) ==
    /\ encRet = NoCall
    /\ encRet' = [op |-> "encode", word |-> word,
                  result |-> encode(encDict.characterDict, encDict.codeDict,
                                    encDict.charset, word)]
    /\ UNCHANGED <<encDict, cacheVars, rewriteVars, sessionVars>>

EncodeNext == \E n \in 1..MaxWordLen : \E word \in SeqsOf(EncodeChars, n) : EncodeWord(word)

SpecEncode == EncodeInit /\ [][EncodeNext]_vars

---------------------------------------------------------------------------
(* Spec: a CalcModel session.  encode and query load the index on their    *)
(* first call; add, edit and delete stage changes; writer rewrites the     *)
(* tables.                                                                 *)

Init ==
    /\ IdleCache /\ IdleRewrite /\ IdleEncode
    /\ \E full \in BOOLEAN :
         /\ files = Disk(full)
         /\ fileStatus = [name \in OptionalFiles |-> full]
    /\ characterDict = <<>> /\ codeDict = <<>> /\ englishDict = <<>> /\ charset = {}
    /\ isParseTigress = FALSE /\ isParseEnglish = FALSE
    /\ cached = [t \in Tables |-> <<>>]
    /\ deleteCached = [t \in Tables |-> <<>>]
    /\ charsetCached = {}
    /\ ret = NoCall /\ hist = <<>> /\ nOps = 0

\* What query(code, isEnglish) returns when called in the current state
QueryNow(code, isEnglish) ==
    LET ix == parseMain(isParseTigress, characterDict, codeDict, charset, files)
    IN  query(ix.codeDict, englishDict, ix.charset, code, isEnglish).results

Encode(word) ==
    LET cleanWord == getCleanWord(word)
        isEnglish == isPureEnglish(cleanWord)
        parsesMain == Len(cleanWord) > 0 /\ ~isEnglish
        parsesEnglish == Len(cleanWord) > 0 /\ isEnglish
    IN  /\ \E ix \in {parseMain(isParseTigress \/ ~parsesMain, characterDict, codeDict,
                                charset, files)} :
              /\ characterDict' = ix.characterDict
              /\ codeDict' = ix.codeDict
              /\ charset' = ix.charset
              /\ ret' = [op |-> "encode", word |-> word,
                         result |-> encode(ix.characterDict, ix.codeDict, ix.charset,
                                           word)]
        /\ isParseTigress' = (isParseTigress \/ parsesMain)
        /\ englishDict' = IF parsesEnglish
                              THEN parseEnglish(isParseEnglish, englishDict, files)
                              ELSE englishDict
        /\ isParseEnglish' = (isParseEnglish \/ parsesEnglish)
        /\ UNCHANGED <<files, fileStatus, cached, deleteCached, charsetCached, hist, nOps,
                       cacheVars, rewriteVars, encodeVars>>

Query(code, isEnglish) ==
    LET parsesMain == Len(code) > 0 /\ ~isEnglish
    IN  /\ \E ix \in {parseMain(isParseTigress \/ ~parsesMain, characterDict, codeDict,
                                charset, files)} :
              /\ characterDict' = ix.characterDict
              /\ codeDict' = query(ix.codeDict, englishDict, ix.charset, code,
                                   isEnglish).codeDict
              /\ charset' = ix.charset
        /\ isParseTigress' = (isParseTigress \/ parsesMain)
        /\ UNCHANGED <<files, fileStatus, englishDict, isParseEnglish, cached, deleteCached,
                       charsetCached, ret, hist, nOps, cacheVars, rewriteVars,
                       encodeVars>>

Add(word, code, weight) ==
    LET cleanWord == getCleanWord(word)
        status == addStatus(codeDict, fileStatus["simple"], fileStatus["english"], word, code)
        cache  == addCache(status)
        isEnglish == isPureEnglish(cleanWord)
        indexed == ~isEnglish /\ cleanWord # <<>> /\ code # <<>>
        newChars == IF indexed THEN addCharset(charset, cleanWord) ELSE {}
    IN  /\ nOps < MaxOps
        /\ Cardinality({i \in 1..Len(hist) : hist[i].op = "add"}) < MaxAdds
        /\ cached' = IF cache = "none" THEN cached
                     ELSE [cached EXCEPT ![cache] =
                              Append(@, [word |-> word, code |-> code, weight |-> weight])]
        /\ englishDict' = IF status = "ENGLISH"
                              THEN addToEnglishDict(englishDict, code, word, weight)
                              ELSE englishDict
        /\ codeDict' = IF indexed
                           THEN addToCodeDict(codeDict, code, word, weight,
                                              addIndexSource(status))
                           ELSE codeDict
        /\ charsetCached' = charsetCached \cup newChars
        /\ charset' = charset \cup newChars
        /\ ret' = [op |-> "add", word |-> word, code |-> code, weight |-> weight,
                   status |-> status, pre |-> cached]
        /\ hist' = Append(hist, [op |-> "add", word |-> word, code |-> code,
                                 weight |-> weight, source |-> cache])
        /\ nOps' = nOps + 1
        /\ UNCHANGED <<files, fileStatus, characterDict, isParseTigress, isParseEnglish,
                       deleteCached, cacheVars, rewriteVars, encodeVars>>

\* The entries of the index, as the table of the view hands them to edit and delete
IndexItems ==
    UNION {{[word |-> codeDict[c][i].word, code |-> c, weight |-> codeDict[c][i].weight,
             source |-> codeDict[c][i].source] : i \in 1..Len(codeDict[c])} :
               c \in DOMAIN codeDict}
    \cup
    UNION {{[word |-> englishDict[c][i].word, code |-> c,
             weight |-> englishDict[c][i].weight,
             source |-> englishDict[c][i].source] : i \in 1..Len(englishDict[c])} :
               c \in DOMAIN englishDict}

ViewItems == {item \in IndexItems : <<item.word, item.code, item.source>> \in EditKeys}

Edit(item) ==
    LET isEnglish == item.source = englishSourceName
        cache == editCache(item.source)
    IN  /\ nOps < MaxOps
        /\ cached' = IF cache = "none" THEN cached
                     ELSE [cached EXCEPT ![cache] =
                              Append(@, [word |-> item.word, code |-> item.code,
                                         weight |-> item.weight])]
        /\ englishDict' = IF isEnglish THEN editIndex(englishDict, item, FALSE)
                          ELSE englishDict
        /\ codeDict' = IF isEnglish THEN codeDict ELSE editIndex(codeDict, item, TRUE)
        /\ ret' = [op |-> "edit", item |-> item, status |-> editStatus(item.source)]
        /\ hist' = Append(hist, [op |-> "edit", word |-> item.word, code |-> item.code,
                                 weight |-> item.weight, source |-> cache])
        /\ nOps' = nOps + 1
        /\ UNCHANGED <<files, fileStatus, characterDict, charset, isParseTigress,
                       isParseEnglish, deleteCached, charsetCached,
                       cacheVars, rewriteVars, encodeVars>>

Delete(item) ==
    LET isEnglish == item.source = englishSourceName
        found == IF isEnglish THEN deleteAt(englishDict, item, FALSE) # 0
                 ELSE deleteAt(codeDict, item, TRUE) # 0
        cache == deleteCache(item.source)
    IN  /\ nOps < MaxOps
        /\ englishDict' = IF isEnglish THEN deleteFromIndex(englishDict, item, FALSE)
                          ELSE englishDict
        /\ codeDict' = IF isEnglish THEN codeDict ELSE deleteFromIndex(codeDict, item, TRUE)
        /\ deleteCached' = IF found /\ cache # "none"
                               THEN [deleteCached EXCEPT ![cache] = Append(@, item)]
                               ELSE deleteCached
        /\ ret' = [op |-> "delete", item |-> item,
                   before |-> QueryNow(item.code, isEnglish)]
        /\ hist' = Append(hist, [op |-> "delete", word |-> item.word, code |-> item.code,
                                 weight |-> item.weight, source |-> cache])
        /\ nOps' = nOps + 1
        /\ UNCHANGED <<files, fileStatus, characterDict, charset, isParseTigress,
                       isParseEnglish, cached, charsetCached,
                       cacheVars, rewriteVars, encodeVars>>

Writer ==
    /\ nOps < MaxOps
    /\ \E charsetOrder \in Orders(charsetCached) :
         \E w \in {writerTables(files, cached, deleteCached, charsetCached,
                                characterDict, charsetOrder)} :
             \E pinyinOrder \in Orders(w.pinyinCacheSet) :
               /\ files' = writerPinyin(w.files, fileStatus, pinyinOrder)
               /\ cached' = w.cached
               /\ ret' = [op |-> "writer",
                          code |-> IF w.writeState THEN "SUCCESS" ELSE "NOTHING"]
    /\ nOps' = nOps + 1
    /\ UNCHANGED <<fileStatus, characterDict, codeDict, englishDict, charset,
                   isParseTigress, isParseEnglish, deleteCached, charsetCached, hist,
                   cacheVars, rewriteVars, encodeVars>>

Next ==
    \/ \E word \in EncodeInputs : Encode(word)
    \/ \E q \in QueryInputs : Query(q[1], q[2])
    \/ \E a \in AddInputs : Add(a[1], a[2], a[3])
    \/ \E item \in ViewItems : \E weight \in Weights \ {item.weight} :
         Edit([item EXCEPT !.weight = weight])
    \/ \E item \in ViewItems : Delete(item)
    \/ Writer

Spec == Init /\ [][Next]_vars

---------------------------------------------------------------------------
(* Properties of the CacheList (SpecCache)                                 *)

HasKey(list, word, code) == \E k \in 1..Len(list) : SameKey(list[k], word, code)

NoDuplicateKeys(list) ==
    \A i, j \in 1..Len(list) :
        i # j => ~SameKey(list[i], list[j].word, list[j].code)

\* C3: a CacheList constructed from a raw list holds, for every (word, code) key,
\* the weight of the raw entry with that key that comes last.
C3_LastWriteWins ==
    clRet.op = "construct" =>
        \A i \in 1..Len(clRet.raw) :
            (\A j \in (i + 1)..Len(clRet.raw) :
                 ~SameKey(clRet.raw[j], clRet.raw[i].word, clRet.raw[i].code))
            => \E k \in 1..Len(cl) : cl[k] = clRet.raw[i]

\* C6: a CacheList never holds two entries with the same (word, code); push of a
\* key already present changes that entry's weight only and keeps the length, push
\* of a new key appends exactly one entry.
C6_NoDuplicateKeys ==
    /\ NoDuplicateKeys(cl)
    /\ clRet.op = "push" =>
         IF HasKey(clRet.pre, clRet.val.word, clRet.val.code)
             THEN /\ Len(cl) = Len(clRet.pre)
                  /\ \A k \in 1..Len(cl) :
                       cl[k] = IF SameKey(clRet.pre[k], clRet.val.word, clRet.val.code)
                                   THEN [clRet.pre[k] EXCEPT !.weight = clRet.val.weight]
                                   ELSE clRet.pre[k]
             ELSE cl = Append(clRet.pre, clRet.val)

\* A push that met its key with another weight, on a list built from a raw list
\* that repeated a key, after a find.
C6_Witness ==
    /\ clRet.op = "push"
    /\ Len(clRet.pre) = 2
    /\ \E k \in 1..Len(clRet.pre) :
         /\ SameKey(clRet.pre[k], clRet.val.word, clRet.val.code)
         /\ clRet.pre[k].weight # clRet.val.weight

---------------------------------------------------------------------------
(* Properties of one rewrite (SpecRewrite)                                 *)

\* The schema model as the rewrite loop has it after the first n lines: comment
\* lines are not fed to it, and nothing is once it is completed.
RECURSIVE SchemaAfter(_, _)
SchemaAfter(lines, n) ==
    IF n = 0 THEN ColumnsModel
    ELSE LET c == SchemaAfter(lines, n - 1)
             item == Strip(lines[n])
         IN  IF c.isCompleted \/ StartsWith(item, <<"#">>) THEN c
             ELSE lineHandler(c, item)

\* The file has a header that ends with "..."
HasHeader(lines) == SchemaAfter(lines, Len(lines)).isCompleted

\* Line i of the file is a body row of table tbl: not a comment, after the
\* header, with the fields a row needs.
IsRow(tbl, lines, i) ==
    /\ ~StartsWith(Strip(lines[i]), <<"#">>)
    /\ SchemaAfter(lines, i - 1).isCompleted
    /\ Len(SplitTab(Strip(lines[i]))) >= MinFields(tbl)

RowField(tbl, lines, i, column) ==
    LET c == SchemaAfter(lines, i - 1)
        fields == SplitTab(Strip(lines[i]))
    IN  IF column = "text" THEN safeGet(fields, c.text, <<>>)
        ELSE IF column = "code" THEN safeGet(fields, c.code, <<>>)
        ELSE safeGet(fields, c.weight, WeightDefault(tbl))

\* Line i is a row that a staged upsert or a staged delete names.
IsStaged(tbl, lines, i, cache, del) ==
    /\ IsRow(tbl, lines, i)
    /\ \/ HasKey(cache, RowField(tbl, lines, i, "text"), RowField(tbl, lines, i, "code"))
       \/ \E k \in 1..Len(del) :
            /\ SameKey(del[k], RowField(tbl, lines, i, "text"),
                       RowField(tbl, lines, i, "code"))
            /\ IntToStr(del[k].weight) = RowField(tbl, lines, i, "weight")

\* The lines of the file that no staged entry names, in file order
RECURSIVE UnstagedLines(_, _, _, _, _)
UnstagedLines(tbl, lines, i, cache, del) ==
    IF i > Len(lines) THEN <<>>
    ELSE (IF IsStaged(tbl, lines, i, cache, del) THEN <<>> ELSE <<lines[i]>>)
         \o UnstagedLines(tbl, lines, i + 1, cache, del)

\* a is b with some elements left out
RECURSIVE IsSubseq(_, _)
IsSubseq(a, b) ==
    IF a = <<>> THEN TRUE
    ELSE IF b = <<>> THEN FALSE
    ELSE IF Head(a) = Head(b) THEN IsSubseq(Tail(a), Tail(b))
    ELSE IsSubseq(a, Tail(b))

\* Number of rows the rewrite appended to the file
AppendedCount == IF rwIn.tbl = "phrases" THEN 0 ELSE Len(rwOut.added)

\* C1: a rewrite of the main, phrases or characters table emits unchanged, and in
\* their order, every comment line, header line, row of fewer than three fields and
\* row named by no staged upsert and no staged delete; the appended rows come after.
C1_UnstagedLinesKept ==
    (rwPc \in {"once", "twice"} /\ rwIn.tbl \in {"main", "phrases", "characters"}) =>
        LET out == rwOut.out
            old == Len(out) - AppendedCount
        IN  /\ old >= 0
            /\ IsSubseq(UnstagedLines(rwIn.tbl, rwIn.lines, 1, rwIn.cache, rwIn.del),
                        SubSeq(out, 1, old))
            /\ \A k \in 1..AppendedCount :
                 out[old + k] =
                     FormatRow(SchemaAfter(rwIn.lines, Len(rwIn.lines)).str,
                               rwOut.added[k].word, rwOut.added[k].code,
                               IntToStr(rwOut.added[k].weight))

\* A main table with a header and a row whose key has a staged delete of another
\* weight, so that the row stays; the staged upsert of another key is appended.
C1_Witness ==
    /\ rwPc = "once" /\ rwIn.tbl = "main"
    /\ rwIn.cache # <<>> /\ rwIn.del # <<>>
    /\ AppendedCount = 1
    /\ HasHeader(rwIn.lines)
    /\ \E j \in 1..Len(rwIn.lines) :
         /\ IsRow("main", rwIn.lines, j)
         /\ ~IsStaged("main", rwIn.lines, j, rwIn.cache, rwIn.del)
         /\ HasKey(rwIn.del, RowField("main", rwIn.lines, j, "text"),
                   RowField("main", rwIn.lines, j, "code"))

\* C2: a rewrite with an empty upsert cache and an empty delete cache writes the
\* lines of the file, all of them and in order.
C2_EmptyCachesRoundTrip ==
    (rwPc \in {"once", "twice"} /\ rwIn.cache = <<>> /\ rwIn.del = <<>>) =>
        rwOut.out = rwIn.lines

\* A file with a header, a comment, a blank line and a body row, rewritten with
\* nothing staged.
C2_Witness ==
    /\ rwPc = "once" /\ rwIn.cache = <<>> /\ rwIn.del = <<>>
    /\ rwOut.out = rwIn.lines
    /\ \E i, j, k \in 1..Len(rwIn.lines) :
         /\ StartsWith(rwIn.lines[i], <<"#">>)
         /\ rwIn.lines[j] = <<>>
         /\ IsRow(rwIn.tbl, rwIn.lines, k)

\* C5: a second rewrite with the same staged upserts and deletes writes what the
\* first wrote (no row added, none removed, no weight changed), whatever the file
\* holds.
C5_SecondPassSame ==
    rwPc = "twice" => rwOut2.out = rwOut.out

---------------------------------------------------------------------------
(* Properties of the encoder (SpecEncode)                                  *)

\* The first n letters of the code the index holds for a character, nothing for a
\* character the index does not hold
Fragment(ch, n) ==
    IF <<ch>> \in DOMAIN encDict.characterDict
        THEN SubSeq(encDict.characterDict[<<ch>>], 1,
                    IF Len(encDict.characterDict[<<ch>>]) < n
                        THEN Len(encDict.characterDict[<<ch>>]) ELSE n)
        ELSE <<>>

\* C9: the code encode returns for a non-English clean word is made of prefixes
\* fixed by the word's length: 4 letters for one character; 2 and 2 for two; 1, 1
\* and 2 for three; 1 each of the first three and the last character for four or
\* more.  A character the index does not hold contributes nothing.
C9_PrefixRule ==
    (encRet.op = "encode" /\ ~encRet.result.isEnglish /\ Len(encRet.result.cleanWord) >= 1) =>
        LET w == encRet.result.cleanWord
            n == Len(w)
        IN  encRet.result.code =
                IF n = 1 THEN Fragment(w[1], 4)
                ELSE IF n = 2 THEN Fragment(w[1], 2) \o Fragment(w[2], 2)
                ELSE IF n = 3 THEN Fragment(w[1], 1) \o Fragment(w[2], 1) \o Fragment(w[3], 2)
                ELSE Fragment(w[1], 1) \o Fragment(w[2], 1) \o Fragment(w[3], 1)
                     \o Fragment(w[n], 1)

\* A word of five characters whose last two differ, one of them not in the index,
\* that got a code of three letters.
C9_Witness ==
    /\ encRet.op = "encode" /\ ~encRet.result.isEnglish
    /\ Len(encRet.result.cleanWord) = 5
    /\ encRet.result.cleanWord[4] # encRet.result.cleanWord[5]
    /\ \E i \in 1..5 : <<encRet.result.cleanWord[i]>> \notin DOMAIN encDict.characterDict
    /\ Len(encRet.result.code) = 3

---------------------------------------------------------------------------
(* Properties of a session (Spec)                                          *)

\* The table a status names
StatusTable(status) ==
    CASE status = "MAIN" -> "main"
      [] status = "PHRASES" -> "phrases"
      [] status = "CHARACTERS" -> "characters"
      [] status = "NEW_CHARACTERS" -> "characters"
      [] status = "SIMPLE" -> "simple"
      [] status = "ENGLISH" -> "english"
      [] OTHER -> "none"

\* C8: add appends exactly one entry (word, code, weight) to the upsert cache its
\* status names and leaves the other caches as they were; with UNKNOWN,
\* SIMPLE_EXCEPTION or ENGLISH_EXCEPTION it appends to none.
C8_AddStagesOnce ==
    ret.op = "add" =>
        /\ ret.status \in {"MAIN", "PHRASES", "CHARACTERS", "NEW_CHARACTERS", "SIMPLE",
                           "ENGLISH", "UNKNOWN", "SIMPLE_EXCEPTION", "ENGLISH_EXCEPTION"}
        /\ IF ret.status \in {"UNKNOWN", "SIMPLE_EXCEPTION", "ENGLISH_EXCEPTION"}
               THEN cached = ret.pre
               ELSE cached = [ret.pre EXCEPT ![StatusTable(ret.status)] =
                                 Append(@, [word |-> ret.word, code |-> ret.code,
                                            weight |-> ret.weight])]

\* A new character added after an edit had staged an entry of another table.
C8_Witness ==
    /\ ret.op = "add" /\ ret.status = "NEW_CHARACTERS"
    /\ \E t \in Tables : ret.pre[t] # <<>>
    /\ Len(cached["characters"]) = Len(ret.pre["characters"]) + 1

\* Number of entries of a query result equal to an entry in word, weight and source
CountEqual(results, item) ==
    Cardinality({k \in 1..Len(results) :
                    /\ results[k].word = item.word
                    /\ results[k].weight = item.weight
                    /\ results[k].source = item.source})

\* C7: before any write, query shows what was staged: after add returned a staging
\* status the code has the word with the added weight; after edit the entry of the
\* word and source has the new weight; after delete of an indexed entry the code has
\* one entry fewer equal to it.
C7_StagedVisible ==
    /\ (ret.op = "add" /\ StatusTable(ret.status) # "none") =>
          \E k \in 1..Len(QueryNow(ret.code, ret.status = "ENGLISH")) :
              /\ QueryNow(ret.code, ret.status = "ENGLISH")[k].word = ret.word
              /\ QueryNow(ret.code, ret.status = "ENGLISH")[k].weight = ret.weight
    /\ ret.op = "edit" =>
          \E k \in 1..Len(QueryNow(ret.item.code, ret.status = "ENGLISH")) :
              /\ QueryNow(ret.item.code, ret.status = "ENGLISH")[k].word = ret.item.word
              /\ QueryNow(ret.item.code, ret.status = "ENGLISH")[k].source = ret.item.source
              /\ QueryNow(ret.item.code, ret.status = "ENGLISH")[k].weight = ret.item.weight
    /\ (ret.op = "delete" /\ CountEqual(ret.before, ret.item) >= 1) =>
          CountEqual(QueryNow(ret.item.code, ret.item.source = englishSourceName), ret.item)
              = CountEqual(ret.before, ret.item) - 1

\* An entry deleted after it was edited, with nothing written in between.
C7_Witness ==
    /\ ret.op = "delete" /\ CountEqual(ret.before, ret.item) = 1
    /\ Len(hist) >= 2
    /\ hist[Len(hist) - 1].op = "edit"
    /\ hist[Len(hist) - 1].word = ret.item.word
    /\ hist[Len(hist) - 1].code = ret.item.code
    /\ QueryNow(ret.item.code, ret.item.source = englishSourceName) = <<>>

\* C10: encode returns weight 0 when the word is English, when the code is empty or
\* when at least one entry is indexed under the code, and 255 otherwise, also after
\* entries were deleted.
C10_DefaultWeight ==
    ret.op = "encode" =>
        /\ ret.result.weight \in {0, 255}
        /\ ret.result.weight = 0 <=>
              \/ ret.result.isEnglish
              \/ ret.result.code = <<>>
              \/ /\ ret.result.code \in DOMAIN codeDict
                 /\ Len(codeDict[ret.result.code]) >= 1

\* The table has a row of the word and code
HasRowFor(tbl, lines, word, code) ==
    \E i \in 1..Len(lines) :
        /\ IsRow(tbl, lines, i)
        /\ RowField(tbl, lines, i, "text") = word
        /\ RowField(tbl, lines, i, "code") = code

\* Calls i and j of the session are an edit of an entry to a weight and, as the
\* last call on that entry, its delete with that weight
EditThenDelete(i, j) ==
    /\ i < j
    /\ hist[i].op = "edit" /\ hist[j].op = "delete"
    /\ hist[i].word = hist[j].word /\ hist[i].code = hist[j].code
    /\ hist[i].source = hist[j].source /\ hist[i].weight = hist[j].weight
    /\ \A k \in (i + 1)..Len(hist) :
         k # j => ~(hist[k].word = hist[j].word /\ hist[k].code = hist[j].code)

\* C4: when a row of a table on disk was edited to a weight and then deleted with
\* that weight, the table writer leaves has no row of that word and code.
C4_EditThenDeleteGone ==
    ret.op = "writer" =>
        \A i, j \in 1..Len(hist) :
            (/\ EditThenDelete(i, j)
             /\ HasRowFor(hist[j].source, DiskLines(hist[j].source), hist[j].word,
                          hist[j].code))
            => ~HasRowFor(hist[j].source, files[hist[j].source].lines, hist[j].word,
                          hist[j].code)

---------------------------------------------------------------------------
(* SpecTable: one table file with a header of any column order, or with    *)
(* none: loaded into the index, rewritten in memory, then written to disk  *)
(* line by line                                                            *)

MaxExtra == 2   \* fields a row has beyond its three columns

\* The orders a columns block can declare the three columns in
ColumnOrders ==
    {o \in [1..3 -> {"text", "code", "weight"}] : \A i, j \in 1..3 : i # j => o[i] # o[j]}

DefaultOrder == <<"text", "code", "weight">>

ColumnLine(name) ==
    IF name = "text" THEN <<"- text">>
    ELSE IF name = "code" THEN <<"- code">>
    ELSE <<"- weight">>

HeaderOf(order) ==
    << <<"columns:">> >> \o [i \in 1..3 |-> ColumnLine(order[i])] \o << <<"...">> >>

\* A header with a columns block in one of the six orders, a header that is the
\* terminator line only, or no header at all
TableLayouts ==
    {[header |-> HeaderOf(o), order |-> o] : o \in ColumnOrders}
    \cup {[header |-> << <<"...">> >>, order |-> DefaultOrder],
          [header |-> <<>>, order |-> DefaultOrder]}

ExtraFields(n) == [i \in 1..n |-> <<"x">> \o IntToStr(i)]

\* A row with its three columns in the order given, then its extra fields
RowIn(order, word, code, weight, extra) ==
    JoinTab([i \in 1..3 |-> IF order[i] = "text" THEN word
                            ELSE IF order[i] = "code" THEN code
                            ELSE weight] \o extra)

\* The bodies of the table: a row of the first key with up to MaxExtra extra
\* fields, alone or followed by a three-field row of the second key
TableBodies(order) ==
    UNION {{ << RowIn(order, WordA, CodeA, <<"1">>, ExtraFields(n)) >>,
             << RowIn(order, WordA, CodeA, <<"1">>, ExtraFields(n)),
                RowIn(order, WordB, CodeB, <<"1">>, <<>>) >> } : n \in 0..MaxExtra}

TableInit ==
    /\ IdleCache /\ IdleEncode /\ IdleSession
    /\ \E tbl \in Tables, lay \in TableLayouts :
         \E body \in TableBodies(lay.order), cache \in SeqsUpTo(StagedUnits, 1),
            del \in SeqsUpTo({u \in StagedUnits : u.word = WordA}, 1) :
           rwIn = [tbl |-> tbl, header |-> lay.header, order |-> lay.order,
                   lines |-> lay.header \o body, cache |-> cache, del |-> del]
    /\ rwOut = NoCall /\ rwOut2 = NoCall /\ rwPc = "init"

\* The table is read into an empty index (_parseEnglish for the English table,
\* _parseTigress for the others); the file on disk is what was read
TableLoad ==
    /\ rwPc = "init"
    /\ rwOut2' =
         [index |-> IF rwIn.tbl = "english"
                        THEN parseEnglish(FALSE, <<>>,
                                 [f \in {"english"} |->
                                     [exists |-> TRUE, lines |-> rwIn.lines]])
                        ELSE parseTigress(<<>>, <<>>, readFile(rwIn.lines, TRUE),
                                          rwIn.tbl).codeDict,
          disk |-> rwIn.lines]
    /\ rwPc' = "loaded"
    /\ UNCHANGED <<rwIn, rwOut, cacheVars, encodeVars, sessionVars>>

\* The two loops of the _write* method: writeContent is built in memory
TableRewrite ==
    /\ rwPc = "loaded"
    /\ \E r \in {writeTable(rwIn.tbl, rwIn.lines, rwIn.cache, rwIn.del)} :
         rwOut' = [out |-> r.out, added |-> r.added]
    /\ rwPc' = "rewritten"
    /\ UNCHANGED <<rwIn, rwOut2, cacheVars, encodeVars, sessionVars>>

\* io.open(file, mode="w"): the file is truncated when it is opened
TableOpen ==
    /\ rwPc = "rewritten"
    /\ rwOut2' = [rwOut2 EXCEPT !.disk = <<>>]
    /\ rwPc' = "open"
    /\ UNCHANGED <<rwIn, rwOut, cacheVars, encodeVars, sessionVars>>

\* One iteration of "for line in writeContent: f.write(line + "\n")"
TableWriteLine ==
    /\ rwPc = "open"
    /\ Len(rwOut2.disk) < Len(rwOut.out)
    /\ rwOut2' = [rwOut2 EXCEPT !.disk = Append(@, rwOut.out[Len(@) + 1])]
    /\ UNCHANGED <<rwIn, rwOut, rwPc, cacheVars, encodeVars, sessionVars>>

\* The end of the with block once every line was written
TableClose ==
    /\ rwPc = "open"
    /\ Len(rwOut2.disk) = Len(rwOut.out)
    /\ rwPc' = "closed"
    /\ UNCHANGED <<rwIn, rwOut, rwOut2, cacheVars, encodeVars, sessionVars>>

\* io.open or f.write raises an OSError: nothing catches it, the with block closes
\* the file and the file stays as it is at that point
TableFail ==
    /\ rwPc \in {"rewritten", "open"}
    /\ rwPc' = "failed"
    /\ UNCHANGED <<rwIn, rwOut, rwOut2, cacheVars, encodeVars, sessionVars>>

TableNext ==
    \/ TableLoad
    \/ TableRewrite
    \/ TableOpen
    \/ TableWriteLine
    \/ TableClose
    \/ TableFail

SpecTable == TableInit /\ [][TableNext]_vars

---------------------------------------------------------------------------
(* Properties of one table file (SpecTable)                                *)

\* Position (from 1) of a column in a declared order
ColumnPos(order, name) == CHOOSE i \in 1..3 : order[i] = name

Placeholder(name) ==
    IF name = "text" THEN "{text}" ELSE IF name = "code" THEN "{code}" ELSE "{weight}"

\* The first body line of the table and its fields
FirstRow == Len(rwIn.header) + 1
FirstRowFields == SplitTab(rwIn.lines[FirstRow])

\* The one staged upsert names the first row's key, nothing is staged for delete
FirstRowReweighted ==
    /\ rwPc \in {"rewritten", "open", "closed", "failed"}
    /\ rwIn.del = <<>> /\ Len(rwIn.cache) = 1
    /\ rwIn.cache[1].word = WordA /\ rwIn.cache[1].code = CodeA

\* C11: with a columns block declaring text, code and weight once each in any of
\* the six orders, each column's rank is its declaration position, the template
\* lists the placeholders in that order, a body row enters the index with the
\* fields at those positions, and a three-field row whose weight is replaced is
\* emitted with its other two fields where they were and the new weight where the
\* old one was.
C11_DeclaredOrderBothWays ==
    (rwPc # "init" /\ Len(rwIn.header) = 5) =>
        LET o == rwIn.order
            c == SchemaAfter(rwIn.lines, 5)
            f == FirstRowFields
            word == f[ColumnPos(o, "text")]
            code == f[ColumnPos(o, "code")]
        IN  /\ c.isCompleted
            /\ c.text = ColumnPos(o, "text") - 1
            /\ c.code = ColumnPos(o, "code") - 1
            /\ c.weight = ColumnPos(o, "weight") - 1
            /\ c.str = [i \in 1..3 |-> Placeholder(o[i])]
            /\ code \in DOMAIN rwOut2.index
            /\ \E k \in 1..Len(rwOut2.index[code]) :
                 /\ rwOut2.index[code][k].word = word
                 /\ rwOut2.index[code][k].weight = strToInt(f[ColumnPos(o, "weight")])
            /\ (FirstRowReweighted /\ Len(f) = 3) =>
                 SplitTab(rwOut.out[FirstRow]) =
                     [f EXCEPT ![ColumnPos(o, "weight")] = IntToStr(rwIn.cache[1].weight)]

\* A table declaring code, text, weight whose three-field row of weight 1 was
\* rewritten with weight 2.
C11_Witness ==
    /\ FirstRowReweighted /\ rwPc = "rewritten"
    /\ rwIn.order = <<"code", "text", "weight">> /\ Len(rwIn.header) = 5
    /\ Len(FirstRowFields) = 3
    /\ rwIn.cache[1].weight = 2
    /\ rwOut.out[FirstRow] = CodeA \o <<TAB>> \o WordA \o <<TAB, "2">>

\* C12: a table file with no header line at all is handled with text, code and
\* weight at positions 0, 1 and 2: its first row is in the index after the load, a
\* staged upsert of that row's key replaces its weight, and a staged upsert of a
\* key the file does not hold is appended as text, code, weight.
C12_HeaderlessDefaults ==
    (rwPc # "init" /\ rwIn.header = <<>>) =>
        /\ CodeA \in DOMAIN rwOut2.index
        /\ \E k \in 1..Len(rwOut2.index[CodeA]) : rwOut2.index[CodeA][k].word = WordA
        /\ (FirstRowReweighted /\ Len(FirstRowFields) = 3) =>
             rwOut.out[FirstRow] = Row(WordA, CodeA, rwIn.cache[1].weight)
        /\ (/\ rwPc \in {"rewritten", "open", "closed", "failed"}
            /\ rwIn.del = <<>> /\ Len(rwIn.cache) = 1 /\ Len(rwIn.lines) = 1
            /\ rwIn.cache[1].word = WordB /\ rwIn.tbl # "phrases") =>
             rwOut.out = rwIn.lines \o << Row(WordB, CodeB, rwIn.cache[1].weight) >>

\* C13: a row whose weight a rewrite replaces keeps every field it has beyond the
\* first three, in every table.
C13_ExtraFieldsKept ==
    (FirstRowReweighted /\ rwIn.header # <<>>) =>
        LET f == FirstRowFields
            g == SplitTab(rwOut.out[FirstRow])
        IN  SubSeq(g, 4, Len(g)) = SubSeq(f, 4, Len(f))

---------------------------------------------------------------------------
(* SpecIndex: sessions over a main table that may list a word twice under  *)
(* one code; the index is built first, then entries are added, edited and  *)
(* deleted                                                                 *)

\* The rows of the main table: one row, the same word twice under one code, two
\* words under one code
IndexBodies ==
    { << Row(NiHao, <<"a", "b", "c", "d">>, 1) >>,
      << Row(NiHao, <<"a", "b", "c", "d">>, 1), Row(NiHao, <<"a", "b", "c", "d">>, 2) >>,
      << Row(NiHao, <<"a", "b", "c", "d">>, 1), Row(HaoNi, <<"a", "b", "c", "d">>, 2) >> }

IndexInit ==
    /\ IdleCache /\ IdleRewrite /\ IdleEncode
    /\ \E body \in IndexBodies :
         files = [Disk(TRUE) EXCEPT !["main"].lines = MainHeader \o body]
    /\ fileStatus = [name \in OptionalFiles |-> TRUE]
    /\ characterDict = <<>> /\ codeDict = <<>> /\ englishDict = <<>> /\ charset = {}
    /\ isParseTigress = FALSE /\ isParseEnglish = FALSE
    /\ cached = [t \in Tables |-> <<>>]
    /\ deleteCached = [t \in Tables |-> <<>>]
    /\ charsetCached = {}
    /\ ret = NoCall /\ hist = <<>> /\ nOps = 0

IndexNext ==
    \/ \E word \in EncodeInputs : Encode(word)
    \/ \E q \in QueryInputs : Query(q[1], q[2])
    \/ isParseTigress /\ \E a \in AddInputs : Add(a[1], a[2], a[3])
    \/ isParseTigress /\ \E item \in ViewItems : \E weight \in Weights \ {item.weight} :
         Edit([item EXCEPT !.weight = weight])
    \/ isParseTigress /\ \E item \in ViewItems : Delete(item)

SpecIndex == IndexInit /\ [][IndexNext]_vars

\* C14: once the index is built, and after any adds, edits and deletes that follow,
\* no code's list holds two entries with the same word and source; a main table
\* that lists a word twice under a code gives a single entry.
C14_OneEntryPerWordAndSource ==
    isParseTigress =>
        \A code \in DOMAIN codeDict :
            \A i, j \in 1..Len(codeDict[code]) :
                (/\ codeDict[code][i].word = codeDict[code][j].word
                 /\ codeDict[code][i].source = codeDict[code][j].source) => i = j

---------------------------------------------------------------------------
(* Properties of writer (Spec)                                             *)

\* C15: when writer has returned, every upsert cache, every delete cache and the
\* charset cache is empty (so that a writer call that follows finds nothing to
\* write).
C15_WriterDrainsCaches ==
    ret.op = "writer" =>
        /\ \A t \in Tables : cached[t] = <<>> /\ deleteCached[t] = <<>>
        /\ charsetCached = {}

---------------------------------------------------------------------------
(* Properties of the write to disk (SpecTable)                             *)

\* C16: when the write of a table file has failed, the file on disk holds the
\* lines it held before the rewrite, all of them.
C16_FailedWriteKeepsFile ==
    rwPc = "failed" => rwOut2.disk = rwIn.lines

---------------------------------------------------------------------------
(* Properties of the pinyin table (Spec)                                   *)

\* A step of the session that is a writer call
WriterStep == nOps' = nOps + 1 /\ ret'.op = "writer"

\* The words of the rows a main table has for keys the table before had no row for
NewMainWords(old, new) ==
    {RowField("main", new, i, "text") :
        i \in {k \in 1..Len(new) :
                 /\ IsRow("main", new, k)
                 /\ ~HasRowFor("main", old, RowField("main", new, k, "text"),
                               RowField("main", new, k, "code"))}}

---------------------------------------------------------------------------
(* SpecEnglish: sessions that add English words, over an English table     *)
(* that is empty, holds its header only, or holds one row                  *)

EnglishBodies ==
    { <<>>,
      DefaultHeader,
      DefaultHeader \o << Row(<<"f", "o">>, <<"f", "o">>, 1) >> }

\* What add is called with: a new word under a lower-case code the table may hold
\* a row of, a word under its code in capitals, the word of the table's row
EnglishAdds ==
    { << <<"F", "o">>, <<"f", "o">>, 2 >>,
      << <<"f", "f">>, <<"F", "F">>, 2 >>,
      << <<"f", "o">>, <<"f", "o">>, 2 >> }

EnglishInit ==
    /\ IdleCache /\ IdleRewrite /\ IdleEncode
    /\ \E body \in EnglishBodies :
         files = [Disk(TRUE) EXCEPT !["english"].lines = body]
    /\ fileStatus = [name \in OptionalFiles |-> TRUE]
    /\ characterDict = <<>> /\ codeDict = <<>> /\ englishDict = <<>> /\ charset = {}
    /\ isParseTigress = FALSE /\ isParseEnglish = FALSE
    /\ cached = [t \in Tables |-> <<>>]
    /\ deleteCached = [t \in Tables |-> <<>>]
    /\ charsetCached = {}
    /\ ret = NoCall /\ hist = <<>> /\ nOps = 0

EnglishNext ==
    \/ \E word \in EncodeInputs : Encode(word)
    \/ \E q \in QueryInputs : Query(q[1], q[2])
    \/ \E a \in EnglishAdds : Add(a[1], a[2], a[3])
    \/ Writer

SpecEnglish == EnglishInit /\ [][EnglishNext]_vars

\* C18: query returns the entries of a code from the greatest weight to the least,
\* for an English query and for a non-English one, and returns nothing for an
\* empty code and for an English code the index does not hold.
C18_QueryDescending ==
    \A q \in QueryInputs :
        LET results == QueryNow(q[1], q[2])
        IN  /\ \A i, j \in 1..Len(results) :
                 i < j => results[i].weight >= results[j].weight
            /\ q[1] = <<>> => results = <<>>
            /\ (q[2] /\ q[1] \notin DOMAIN englishDict) => results = <<>>

\* C19: a writer call made after one add of an English word whose (word, code) the
\* English table has no row of appends the row word, code, weight to that table
\* and changes no line of it, whatever the case of the code's letters and also
\* when the table is an empty file.
C19_OneEnglishRow ==
    [][(/\ WriterStep
        /\ Len(hist) = 1 /\ hist[1].op = "add" /\ hist[1].source = "english"
        /\ files["english"].lines \in EnglishBodies
        /\ ~HasRowFor("english", files["english"].lines, hist[1].word, hist[1].code))
       => files'["english"].lines =
              files["english"].lines
                  \o << Row(hist[1].word, hist[1].code, hist[1].weight) >>
      ]_vars

---------------------------------------------------------------------------
(* checkShortThreeWords, and SpecCheck: the check run on main tables of a  *)
(* few rows under codes of three and of four letters                       *)

MaxRows == 3   \* rows of the main table

\* One pass of "for c in self._codeDict[code]" of the length-3 branch: the number of
\* words of three characters, whether another word is in the common range, the
\* words recorded for the warning
RECURSIVE shortScan(_, _, _, _)
shortScan(entries, cs, i, st) ==
    IF i > Len(entries) THEN st
    ELSE LET cw == entries[i].word
             w  == getCleanWord(cw)
         IN  shortScan(entries, cs, i + 1,
                 IF Len(w) = 3
                     THEN [st EXCEPT !.hadWords = @ + 1, !.record = Append(@, cw)]
                 ELSE IF getRange(cs, w)
                     THEN [st EXCEPT !.hadOther = TRUE, !.record = Append(@, cw)]
                 ELSE st)

\* "if (hadWords > 1) or (hadOther and hadWords > 0)" read as a count of the recorded
\* words alone
shortConflictAnyTwo(entries, cs) ==
    LET st == shortScan(entries, cs, 1,
                        [hadWords |-> 0, hadOther |-> FALSE, record |-> <<>>])
    IN  Len(st.record) > 1

\* Whether the length-3 branch logs the warning for a code with these entries
shortConflict(entries, cs) ==
    LET st == shortScan(entries, cs, 1,
                        [hadWords |-> 0, hadOther |-> FALSE, record |-> <<>>])
    IN  (st.hadWords > 1) \/ (st.hadOther /\ st.hadWords > 0)

\* threeWords of the length-4 branch
RECURSIVE threeWordsOf(_, _)
threeWordsOf(entries, i) ==
    IF i > Len(entries) THEN <<>>
    ELSE IF Len(getCleanWord(entries[i].word)) = 3
        THEN <<entries[i].word>> \o threeWordsOf(entries, i + 1)
    ELSE threeWordsOf(entries, i + 1)

\* hadSimple of the length-4 branch
hadSimple(cd, cs, tc) ==
    /\ tc \in DOMAIN cd
    /\ \E i \in 1..Len(cd[tc]) :
           LET sw == getCleanWord(cd[tc][i].word)
           IN  Len(sw) = 3 \/ getRange(cs, sw)

\* checkShortThreeWords on a loaded index: the codes the warning is logged for and,
\* per code of four letters, the words logged as able to take a three-letter code
checkShortThreeWords(cd, cs) ==
    [conflicts |-> {code \in DOMAIN cd : Len(code) = 3 /\ shortConflict(cd[code], cs)},
     additional |->
         {<<code, threeWordsOf(cd[code], 1)>> : code \in
             {c \in DOMAIN cd : /\ Len(c) = 4
                                /\ threeWordsOf(cd[c], 1) # <<>>
                                /\ ~hadSimple(cd, cs, Take(c, 3))}}]

NiHaoNi == <<"NI", "HAO", "NI">>
MaMaMa  == <<"MA", "MA", "MA">>
CodeAbc == <<"a", "b", "c">>

\* The rows main tables are made of: under one code of three letters a word of three
\* common characters, a word of three characters out of the common range, a common
\* character, a common word of two characters and a character out of the common
\* range; a common character under another code of three letters; a word of three
\* characters under a code of four letters
CheckRows ==
    << Row(NiHaoNi, CodeAbc, 1),
       Row(MaMaMa, CodeAbc, 1),
       Row(<<"NI">>, CodeAbc, 1),
       Row(NiHao, CodeAbc, 1),
       Row(<<"MA">>, CodeAbc, 1),
       Row(<<"HAO">>, <<"a", "b", "d">>, 1),
       Row(NiHaoNi, <<"a", "b", "c", "d">>, 1) >>

CheckBody(S) ==
    LET f[i \in 0..Len(CheckRows)] ==
            IF i = 0 THEN <<>>
            ELSE IF i \in S THEN Append(f[i - 1], CheckRows[i])
            ELSE f[i - 1]
    IN  f[Len(CheckRows)]

CheckBodies ==
    {CheckBody(S) : S \in {T \in SUBSET (1..Len(CheckRows)) : Cardinality(T) <= MaxRows}}

CheckInit ==
    /\ IdleCache /\ IdleRewrite /\ IdleEncode
    /\ \E body \in CheckBodies :
         files = [Disk(TRUE) EXCEPT !["main"].lines = MainHeader \o body]
    /\ fileStatus = [name \in OptionalFiles |-> TRUE]
    /\ characterDict = <<>> /\ codeDict = <<>> /\ englishDict = <<>> /\ charset = {}
    /\ isParseTigress = FALSE /\ isParseEnglish = FALSE
    /\ cached = [t \in Tables |-> <<>>]
    /\ deleteCached = [t \in Tables |-> <<>>]
    /\ charsetCached = {}
    /\ ret = NoCall /\ hist = <<>> /\ nOps = 0

CheckShortThreeWords ==
    /\ \E ix \in {parseMain(isParseTigress, characterDict, codeDict, charset, files)} :
          /\ characterDict' = ix.characterDict
          /\ codeDict' = ix.codeDict
          /\ charset' = ix.charset
          /\ ret' = [op |-> "checkShortThreeWords",
                     result |-> checkShortThreeWords(ix.codeDict, ix.charset)]
    /\ isParseTigress' = TRUE
    /\ UNCHANGED <<files, fileStatus, englishDict, isParseEnglish, cached, deleteCached,
                   charsetCached, hist, nOps, cacheVars, rewriteVars, encodeVars>>

CheckNext ==
    \/ CheckShortThreeWords
    \/ \E word \in {NiHao, NiHaoNi} : Encode(word)
    \/ Query(CodeAbc, FALSE)

SpecCheck == CheckInit /\ [][CheckNext]_vars

\* The entries of a code that are a word of three characters or a common-range word
ShortHolders(code) ==
    {i \in 1..Len(codeDict[code]) :
        LET w == getCleanWord(codeDict[code][i].word)
        IN  Len(w) = 3 \/ getRange(charset, w)}

ThreeCharWords(code) ==
    {i \in 1..Len(codeDict[code]) : Len(getCleanWord(codeDict[code][i].word)) = 3}

\* C20: checkShortThreeWords reports a code of three letters as a conflict exactly
\* when at least one entry of the code is a word of three characters and more than
\* one entry of the code is a word of three characters or a common-range word.
C20_ConflictNeedsThreeCharWord ==
    ret.op = "checkShortThreeWords" =>
        \A code \in DOMAIN codeDict :
            Len(code) = 3 =>
                (code \in ret.result.conflicts
                    <=> /\ ThreeCharWords(code) # {}
                        /\ Cardinality(ShortHolders(code)) > 1)

\* C20 as stated: a code of three letters is reported exactly when more than one of
\* its entries is a word of three characters or a common-range word.
C20_ConflictOnAnyTwoHolders ==
    ret.op = "checkShortThreeWords" =>
        \A code \in DOMAIN codeDict :
            Len(code) = 3 =>
                (code \in ret.result.conflicts <=> Cardinality(ShortHolders(code)) > 1)

\* The check has reported a code under which a common character stands beside the
\* one word of three characters
C20_Witness ==
    /\ ret.op = "checkShortThreeWords"
    /\ CodeAbc \in ret.result.conflicts
    /\ Cardinality(ThreeCharWords(CodeAbc)) = 1
    /\ Cardinality(ShortHolders(CodeAbc)) = 2

---------------------------------------------------------------------------
(* The name, emoji and symbols tables: updateName, updateEmoji,            *)
(* updateSymbols and the rewrites writer() makes of them                   *)

MaxAuxLines == 3   \* body lines of a name, emoji or symbols table

\* str.split(sep) for a one-token separator: always at least one field
RECURSIVE SplitOn(_, _)
SplitOn(s, sep) ==
    IF \A i \in 1..Len(s) : s[i] # sep THEN <<s>>
    ELSE LET k == CHOOSE i \in 1..Len(s) :
                      s[i] = sep /\ \A j \in 1..(i - 1) : s[j] # sep
         IN  <<SubSeq(s, 1, k - 1)>> \o SplitOn(SubSeq(s, k + 1, Len(s)), sep)

\* sep.join
RECURSIVE JoinOn(_, _)
JoinOn(fs, sep) ==
    IF fs = <<>> THEN <<>>
    ELSE IF Len(fs) = 1 THEN fs[1]
    ELSE fs[1] \o <<sep>> \o JoinOn(Tail(fs), sep)

\* re.sub(" ", "&nbsp;", x)
Nbsp(x) == [i \in 1..Len(x) |-> IF x[i] = SP THEN "&nbsp;" ELSE x[i]]

\* A dict in insertion order: d[key] = value keeps the place of a key it holds
DictKeys(d) == {d[i].key : i \in 1..Len(d)}
DictSet(d, key, value) ==
    IF key \in DictKeys(d)
        THEN [i \in 1..Len(d) |-> IF d[i].key = key THEN [key |-> key, value |-> value]
                                  ELSE d[i]]
        ELSE Append(d, [key |-> key, value |-> value])
DictGet(d, key) == (CHOOSE i \in 1..Len(d) : d[i].key = key)
DictDel(d, key) == SelectSeq(d, LAMBDA e : e.key # key)

\* The units a cache entry is written with: _writeName escapes the spaces
AuxUnits(tbl, units) ==
    IF tbl = "name" THEN [i \in 1..Len(units) |-> Nbsp(units[i])] ELSE units

\* f"{word}\t{word} {' '.join(units)}"
AuxRow(word, units) == word \o <<TAB>> \o word \o <<SP>> \o JoinOn(units, SP)

\* One iteration of "for line in lines" of _writeName and _writeEmoji;
\* st is [out, cache]
writeAuxLine(tbl, st, rawLine) ==
    LET line   == Strip(rawLine)
        fields == SplitTab(line)
    IN  IF Len(fields) # 2 THEN st
        ELSE LET word    == fields[1]
                 matched == word \in DictKeys(st.cached)
                 units   == IF matched
                                THEN AuxUnits(tbl, st.cached[DictGet(st.cached, word)].value)
                                ELSE Tail(SplitOn(fields[2], SP))
             IN  [out |-> IF Len(units) # 0 THEN Append(st.out, AuxRow(word, units))
                          ELSE st.out,
                  cached |-> IF matched THEN DictDel(st.cached, word) ELSE st.cached]

RECURSIVE writeAuxLines(_, _, _, _)
writeAuxLines(tbl, st, lines, i) ==
    IF i > Len(lines) THEN st
    ELSE writeAuxLines(tbl, writeAuxLine(tbl, st, lines[i]), lines, i + 1)

\* "for cacheKey in self._nameCached": the rows of the keys no line matched
RECURSIVE appendAux(_, _, _, _)
appendAux(tbl, out, cache, i) ==
    IF i > Len(cache) THEN out
    ELSE appendAux(tbl,
                   IF Len(cache[i].value) # 0
                       THEN Append(out, AuxRow(cache[i].key, AuxUnits(tbl, cache[i].value)))
                       ELSE out,
                   cache, i + 1)

\* _writeName and _writeEmoji: the lines written and the cache left
writeName(tbl, content, cache) ==
    LET st == writeAuxLines(tbl, [out |-> <<>>, cached |-> cache],
                            readFile(content, TRUE), 1)
    IN  [lines |-> appendAux(tbl, st.out, st.cached, 1), cached |-> st.cached]

SymbolsTag == <<"symbols:">>
SymbolNames == {"k1", "k2"}

\* re.findall(r"'/([a-zA-Z0-9]+)'", field): the first name between '/ and '
FindWord(field) ==
    LET hits == {i \in 1..(Len(field) - 2) :
                    field[i] = "'/" /\ field[i + 1] \in SymbolNames /\ field[i + 2] = "'"}
    IN  IF hits = {} THEN <<>>
        ELSE << <<field[(CHOOSE i \in hits : \A j \in hits : i <= j) + 1]>> >>

\* f"    '/{word}': [ {', '.join(units)} ]"
SymbolsRow(word, units) ==
    <<SP, SP, SP, SP, "'/">> \o word \o <<"'", ": ", "[ ">> \o JoinOn(units, ", ")
        \o <<" ]">>

\* One iteration of "for line in lines" of _writeSymbols;
\* st is [out, cache, inShape, lastComment, lastLine]
writeSymbolsLine(st, line) ==
    LET item == Strip(line)
    IN  IF st.inShape
            THEN IF item = SymbolsTag
                     THEN [st EXCEPT !.out = Append(@, line), !.inShape = FALSE,
                                     !.lastLine = line]
                     ELSE [st EXCEPT !.out = Append(@, line)]
        ELSE IF StartsWith(item, <<"#">>)
            THEN [st EXCEPT !.out = IF st.lastComment # <<>> THEN Append(@, st.lastLine)
                                    ELSE @,
                            !.lastComment = Tail(item),
                            !.lastLine = line]
        ELSE LET fields   == SplitOn(item, ": ")
                 wordList == IF Len(fields) = 2 THEN FindWord(fields[1]) ELSE <<>>
             IN  IF Len(fields) # 2 \/ Len(wordList) = 0
                     THEN [st EXCEPT !.out = Append(@, line), !.lastComment = <<>>,
                                     !.lastLine = <<>>]
                 ELSE LET word == wordList[1]
                      IN  IF word \in DictKeys(st.cached)
                              THEN LET unit == st.cached[DictGet(st.cached, word)].value
                                   IN  IF Len(unit.symbols) = 0
                                           THEN [st EXCEPT
                                                   !.cached = DictDel(@, word),
                                                   !.lastComment = unit.comment]
                                           ELSE [st EXCEPT
                                                   !.cached = DictDel(@, word),
                                                   !.lastComment = <<>>,
                                                   !.out =
                                                     (IF unit.comment # <<>>
                                                          THEN Append(@, <<"#">> \o unit.comment)
                                                          ELSE @)
                                                     \o <<SymbolsRow(word, unit.symbols)>>]
                              ELSE IF st.lastComment # <<>>
                                  THEN [st EXCEPT !.out = @ \o <<st.lastLine, line>>,
                                                  !.lastComment = <<>>,
                                                  !.lastLine = <<>>]
                                  ELSE [st EXCEPT !.out = Append(@, line)]

RECURSIVE writeSymbolsLines(_, _, _)
writeSymbolsLines(st, lines, i) ==
    IF i > Len(lines) THEN st
    ELSE writeSymbolsLines(writeSymbolsLine(st, lines[i]), lines, i + 1)

\* "for cacheKey in self._symbolsCached": the entries of the keys no line matched
RECURSIVE appendSymbols(_, _, _)
appendSymbols(out, cache, i) ==
    IF i > Len(cache) THEN out
    ELSE LET unit == cache[i].value
         IN  appendSymbols(
                 IF Len(unit.symbols) # 0
                     THEN (IF unit.comment # <<>> THEN Append(out, <<"#">> \o unit.comment)
                           ELSE out) \o <<SymbolsRow(cache[i].key, unit.symbols)>>
                     ELSE out,
                 cache, i + 1)

\* _writeSymbols: the lines written and the cache left
writeSymbols(content, cache) ==
    LET st == writeSymbolsLines([out |-> <<>>, cached |-> cache, inShape |-> TRUE,
                                 lastComment |-> <<>>, lastLine |-> <<>>],
                                readFile(content, FALSE), 1)
    IN  [lines |-> appendSymbols(st.out, st.cached, 1), cached |-> st.cached]

AuxTables == {"name", "emoji", "symbols"}
AuxKeys == {<<"k1">>, <<"k2">>}

\* The lines a name or an emoji table is made of: a comment, a blank line, a line
\* without a tab, a row per key
AuxLines ==
    { <<"#", "c">>, <<>>, <<"k1">>,
      <<"k1", TAB, "k1", SP, "u">>,
      <<"k2", TAB, "k2", SP, "u", SP, "v">> }

\* The lines the symbols of a symbols table are made of: a comment, a blank line,
\* a line that is no entry, an entry per key
SymbolsLines ==
    { <<"#", "c">>, <<>>, <<"k1">>,
      SymbolsRow(<<"k1">>, << <<"u">> >>),
      SymbolsRow(<<"k2">>, << <<"u">>, <<"v">> >>) }

AuxBodies(tbl) ==
    IF tbl = "symbols"
        THEN {<< <<"shape">>, SymbolsTag >> \o body :
                 body \in SeqsUpTo(SymbolsLines, MaxAuxLines)}
        ELSE SeqsUpTo(AuxLines, MaxAuxLines)

\* What the update calls are made with: no unit (the row is to go), one unit, a
\* unit with a space in it; for a symbol, with and without a comment
AuxValues(tbl) ==
    IF tbl = "symbols"
        THEN [comment : {<<>>, <<"n">>}, symbols : {<<>>, << <<"w">> >>}]
        ELSE {<<>>, << <<"w">> >>, << <<"w", SP, "x">> >>}

AuxInit ==
    /\ IdleCache /\ IdleEncode /\ IdleSession
    /\ \E tbl \in AuxTables : \E body \in AuxBodies(tbl) :
         rwIn = [tbl |-> tbl, lines |-> body, cached |-> <<>>]
    /\ rwOut = NoCall /\ rwOut2 = NoCall
    /\ rwPc = "init"

\* updateName, updateEmoji, updateSymbols: self._nameCached[transName] = oriNames
AuxUpdate(tbl, key, value) ==
    /\ rwPc = "init"
    /\ rwIn.tbl = tbl
    /\ rwIn' = [rwIn EXCEPT !.cached = DictSet(@, key, value)]
    /\ UNCHANGED <<rwOut, rwOut2, rwPc, cacheVars, encodeVars, sessionVars>>

UpdateName == \E key \in AuxKeys : \E value \in AuxValues("name") :
                  AuxUpdate("name", key, value)
UpdateEmoji == \E key \in AuxKeys : \E value \in AuxValues("emoji") :
                   AuxUpdate("emoji", key, value)
UpdateSymbols == \E key \in AuxKeys : \E value \in AuxValues("symbols") :
                     AuxUpdate("symbols", key, value)

\* writer(): the table is rewritten when its cache holds a key
AuxWriter ==
    /\ rwPc = "init"
    /\ Len(rwIn.cached) > 0
    /\ rwOut' = IF rwIn.tbl = "symbols" THEN writeSymbols(rwIn.lines, rwIn.cached)
                ELSE writeName(rwIn.tbl, rwIn.lines, rwIn.cached)
    /\ rwPc' = "written"
    /\ UNCHANGED <<rwIn, rwOut2, cacheVars, encodeVars, sessionVars>>

AuxNext == UpdateName \/ UpdateEmoji \/ UpdateSymbols \/ AuxWriter

SpecAux == AuxInit /\ [][AuxNext]_vars

\* The entry of a staged key: the row of the key in a name or emoji table, the
\* entry of the key in a symbols table
IsStagedLine(tbl, line, cache) ==
    IF tbl = "symbols"
        THEN LET fields == SplitOn(Strip(line), ": ")
             IN  /\ Len(fields) = 2
                 /\ \E w \in DictKeys(cache) : FindWord(fields[1]) = <<w>>
        ELSE LET fields == SplitTab(Strip(line))
             IN  Len(fields) = 2 /\ fields[1] \in DictKeys(cache)

\* The lines of a table that belong to no staged key, in their order; the comment
\* right above the entry of a staged symbol belongs to that symbol
AuxUnstaged(tbl, lines, cache) ==
    LET keep(i) ==
            /\ ~IsStagedLine(tbl, lines[i], cache)
            /\ ~(/\ tbl = "symbols"
                 /\ StartsWith(Strip(lines[i]), <<"#">>)
                 /\ i < Len(lines)
                 /\ IsStagedLine(tbl, lines[i + 1], cache))
        f[i \in 0..Len(lines)] ==
            IF i = 0 THEN <<>>
            ELSE IF keep(i) THEN Append(f[i - 1], lines[i]) ELSE f[i - 1]
    IN  f[Len(lines)]

RECURSIVE IsSubsequence(_, _)
IsSubsequence(a, b) ==
    IF a = <<>> THEN TRUE
    ELSE IF b = <<>> THEN FALSE
    ELSE IF Head(a) = Head(b) THEN IsSubsequence(Tail(a), Tail(b))
    ELSE IsSubsequence(a, Tail(b))

\* C21: a rewrite of the name, the emoji or the symbols table writes every line of
\* the table that belongs to no staged key (comment, blank line, line that is no
\* entry, entry of another key) as it was, and in the order the lines had.
C21_UnstagedLinesKept ==
    rwPc = "written" =>
        IsSubsequence(AuxUnstaged(rwIn.tbl, rwIn.lines, rwIn.cached), rwOut.lines)

---------------------------------------------------------------------------
(* The tables written by writer() read back                                *)

\* How many times an entry stands in a code's list
CountOf(entries, e) == Cardinality({i \in 1..Len(entries) : entries[i] = e})

EntriesUnder(cd, code) == IF code \in DOMAIN cd THEN cd[code] ELSE <<>>

SameEntries(a, b) ==
    \A e \in {a[i] : i \in 1..Len(a)} \cup {b[i] : i \in 1..Len(b)} :
        CountOf(a, e) = CountOf(b, e)

\* C22: after writer(), an index built anew from the table files holds under every
\* code the entries (word, weight, source) the index in memory holds, each as many
\* times.
C22_DiskMatchesIndex ==
    (ret.op = "writer" /\ isParseTigress) =>
        \A built \in {parseMain(FALSE, <<>>, <<>>, {}, files)} :
            \A code \in DOMAIN codeDict \cup DOMAIN built.codeDict :
                SameEntries(EntriesUnder(codeDict, code),
                            EntriesUnder(built.codeDict, code))

\* Call j of the session is the delete of an entry, the last call on the entry's
\* word and code, and the call on that word and code before it was an add or an
\* edit that gave the entry the weight it is deleted with
StagedThenDeleted(j) ==
    /\ hist[j].op = "delete"
    /\ \E i \in 1..(j - 1) :
         /\ hist[i].op \in {"add", "edit"}
         /\ hist[i].word = hist[j].word /\ hist[i].code = hist[j].code
         /\ hist[i].weight = hist[j].weight
         /\ \A k \in (i + 1)..(j - 1) :
              ~(hist[k].word = hist[j].word /\ hist[k].code = hist[j].code)
    /\ \A k \in (j + 1)..Len(hist) :
         ~(hist[k].word = hist[j].word /\ hist[k].code = hist[j].code)

\* C23: when adds and edits of one word and code were followed by the delete of that
\* entry with the weight it then had, the entry's table has no row of that word and
\* code after writer(), whether the table had such a row before the session or not.
C23_StagedThenDeletedGone ==
    ret.op = "writer" =>
        \A j \in 1..Len(hist) :
            StagedThenDeleted(j)
            => ~HasRowFor(hist[j].source, files[hist[j].source].lines, hist[j].word,
                          hist[j].code)

\* C24: an add made before the index was loaded returns the status, and after the
\* load leaves under its code the entries, that the same add returns and leaves
\* when it is made on the loaded index.
C24_AddBeforeLoadSameAsAfter ==
    (ret.op = "add" /\ Len(hist) = 1 /\ ~isParseTigress /\ ~isParseEnglish) =>
        \A loaded \in {parseMain(FALSE, <<>>, <<>>, {}, files)} :
        \A later \in {parseMain(FALSE, characterDict, codeDict, charset, files)} :
            LET status == addStatus(loaded.codeDict, fileStatus["simple"],
                                    fileStatus["english"], ret.word, ret.code)
                cleanWord == getCleanWord(ret.word)
                isEnglish == isPureEnglish(cleanWord)
            IN  /\ ret.status = status
                /\ (~isEnglish /\ cleanWord # <<>> /\ ret.code # <<>>) =>
                       EntriesUnder(later.codeDict, ret.code)
                           = EntriesUnder(addToCodeDict(loaded.codeDict, ret.code, ret.word,
                                                        ret.weight, addIndexSource(status)),
                                          ret.code)
                /\ status = "ENGLISH" =>
                       EntriesUnder(parseEnglish(FALSE, englishDict, files), ret.code)
                           = EntriesUnder(addToEnglishDict(parseEnglish(FALSE, <<>>, files),
                                                           ret.code, ret.word, ret.weight),
                                          ret.code)

---------------------------------------------------------------------------
(* SpecUnread: the rewrite of one table whose file cannot be read when the  *)
(* rewrite starts                                                          *)

\* common/file.py readFile when io.open or f.read raises: the error is logged and
\* the empty list returned
readFileFailed == <<>>

\* The _write* method of a table with something staged, its readFile failing:
\* writeContent is built from no line at all
TableRewriteUnread ==
    /\ rwPc = "loaded"
    /\ Len(rwIn.cache) + Len(rwIn.del) > 0
    /\ \E r \in {writeTable(rwIn.tbl, readFileFailed, rwIn.cache, rwIn.del)} :
         rwOut' = [out |-> r.out, added |-> r.added]
    /\ rwPc' = "rewritten"
    /\ UNCHANGED <<rwIn, rwOut2, cacheVars, encodeVars, sessionVars>>

UnreadNext ==
    \/ TableLoad
    \/ TableRewriteUnread
    \/ TableOpen
    \/ TableWriteLine
    \/ TableClose
    \/ TableFail

SpecUnread == TableInit /\ [][UnreadNext]_vars

\* C25: when the file of a table could not be read by the rewrite, the file holds
\* after the rewrite the lines it held before.
C25_UnreadFileKept ==
    rwPc = "closed" => rwOut2.disk = rwIn.lines

---------------------------------------------------------------------------
(* SpecColumns: a ColumnsModel fed the header lines of a table, one by one, *)
(* as the readers and the rewrites feed it: until it is completed          *)

MaxHeader == 6   \* header lines fed to one ColumnsModel

\* The lines a header is made of: the three column tags, the line that opens the
\* columns block, the line that ends the header, a line of another block
HeaderLines ==
    { <<"columns:">>, <<"- text">>, <<"- code">>, <<"- weight">>, <<"...">>,
      <<"import_tables:">> }

ColumnsInit ==
    /\ IdleCache /\ IdleEncode /\ IdleSession
    /\ rwIn = <<>>
    /\ rwOut = ColumnsModel
    /\ rwOut2 = NoCall
    /\ rwPc = "header"

\* "if not columns.isCompleted: columns.lineHandler(item)" of a reader or a rewrite
FeedLine(line) ==
    /\ rwPc = "header"
    /\ ~rwOut.isCompleted
    /\ Len(rwIn) < MaxHeader
    /\ rwIn' = Append(rwIn, line)
    /\ rwOut' = lineHandler(rwOut, line)
    /\ UNCHANGED <<rwOut2, rwPc, cacheVars, encodeVars, sessionVars>>

ColumnsNext == \E line \in HeaderLines : FeedLine(line)

SpecColumns == ColumnsInit /\ [][ColumnsNext]_vars

\* C26: a completed ColumnsModel has the ranks 0, 1 and 2, one per column, and a
\* template of three placeholders in which each column's placeholder stands at the
\* column's rank, whatever the header declared.
C26_CompletedRanksArePermutation ==
    (rwPc = "header" /\ rwOut.isCompleted) =>
        /\ {rwOut.text, rwOut.code, rwOut.weight} = {0, 1, 2}
        /\ Len(rwOut.str) = 3
        /\ rwOut.str[rwOut.text + 1] = "{text}"
        /\ rwOut.str[rwOut.code + 1] = "{code}"
        /\ rwOut.str[rwOut.weight + 1] = "{weight}"

\* C27: once the three columns have their ranks, or the terminator was read, no
\* line fed to the ColumnsModel changes a rank.
C27_RanksFrozen ==
    [][(/\ rwPc = "header"
        /\ \/ rwOut.isCompleted
           \/ (rwOut.text # -1 /\ rwOut.code # -1 /\ rwOut.weight # -1))
       => (/\ rwOut'.text = rwOut.text
           /\ rwOut'.code = rwOut.code
           /\ rwOut'.weight = rwOut.weight)
      ]_vars

---------------------------------------------------------------------------
(* Properties of add and delete on the index (Spec)                        *)

AddStep == nOps' = nOps + 1 /\ ret'.op = "add"

\* C28: an add that returns SIMPLE_EXCEPTION or ENGLISH_EXCEPTION stages nothing and
\* leaves the index of codes, the English index, the charset, the charset cache and
\* every upsert and delete cache as they were.
C28_ExceptionAddChangesNothing ==
    [][(AddStep /\ ret'.status \in {"SIMPLE_EXCEPTION", "ENGLISH_EXCEPTION"})
       => UNCHANGED <<codeDict, englishDict, charset, charsetCached, cached,
                      deleteCached>>
      ]_vars

---------------------------------------------------------------------------
(* SpecImport: sessions over a main table that imports, beside the tables   *)
(* of characters, phrases and short codes, one more table                  *)

extraSourceName == "extra"

\* The header of the main table, the fourth table imported last
ImportHeader ==
    << <<"columns:">>, <<"- text">>, <<"- code">>, <<"- weight">>,
       <<"import_tables:">>, <<"- ", "characters">>, <<"- ", "phrases">>,
       <<"- ", "simple">>, <<"- ", extraSourceName>>, <<"...">> >>

ImportDisk ==
    [name \in FileNames \cup {extraSourceName} |->
        IF name = extraSourceName
            THEN [exists |-> TRUE,
                  lines |-> DefaultHeader \o << Row(<<"MA">>, <<"e", "f", "o", "x">>, 1) >>]
        ELSE IF name = "main"
            THEN [exists |-> TRUE,
                  lines |-> ImportHeader \o << Row(NiHao, <<"a", "b", "c", "d">>, 1) >>]
        ELSE Disk(TRUE)[name]]

ImportInit ==
    /\ IdleCache /\ IdleRewrite /\ IdleEncode
    /\ files = ImportDisk
    /\ fileStatus = [name \in OptionalFiles |-> TRUE]
    /\ characterDict = <<>> /\ codeDict = <<>> /\ englishDict = <<>> /\ charset = {}
    /\ isParseTigress = FALSE /\ isParseEnglish = FALSE
    /\ cached = [t \in Tables |-> <<>>]
    /\ deleteCached = [t \in Tables |-> <<>>]
    /\ charsetCached = {}
    /\ ret = NoCall /\ hist = <<>> /\ nOps = 0

\* Every entry of the two indices, as the view hands it to delete
AllItems ==
    IndexItems \cup
    UNION {{[word |-> englishDict[c][i].word, code |-> c,
             weight |-> englishDict[c][i].weight, source |-> englishDict[c][i].source] :
               i \in 1..Len(englishDict[c])} : c \in DOMAIN englishDict}

ImportNext ==
    \/ \E word \in EncodeInputs : Encode(word)
    \/ \E q \in QueryInputs : Query(q[1], q[2])
    \/ \E item \in AllItems : Delete(item)
    \/ Writer

SpecImport == ImportInit /\ [][ImportNext]_vars

DeleteStep == nOps' = nOps + 1 /\ ret'.op = "delete"

\* C29: a delete that removes an entry from an index appends the entry to the delete
\* cache of the table the entry came from; an entry of any other table stays in the
\* index.
C29_RemovedEntryIsStaged ==
    [][(DeleteStep /\ (codeDict' # codeDict \/ englishDict' # englishDict))
       => \E t \in Tables :
            /\ t = deleteCache(ret'.item.source)
            /\ deleteCached'[t] = Append(deleteCached[t], ret'.item)
      ]_vars

---------------------------------------------------------------------------
(* SpecSimple: writer()'s rewrite of the simple table, with characters      *)
(* staged for the charset                                                  *)

MaxSimpleRows == 2   \* body rows of the simple table

CodeAbe == <<"a", "b", "e">>
CodeCdf == <<"c", "d", "f">>

\* The character index of the session's characters table: NI -> abex, HAO -> cdfx
SimpleCharacterDict == parseMain(FALSE, <<>>, <<>>, {}, Disk(TRUE)).characterDict

\* The keys of the simple table: two under the first three code letters of a
\* character each, one under a code of two letters
SimpleKeys == { <<NiHao, CodeAbe>>, <<HaoNi, CodeCdf>>, <<NiHao, <<"a", "b">> >> }

SimpleBodies == SeqsUpTo({Row(k[1], k[2], 1) : k \in SimpleKeys}, MaxSimpleRows)

SimpleUnits == {[word |-> k[1], code |-> k[2], weight |-> w] : k \in SimpleKeys, w \in {1, 2}}

\* The characters add can have staged for the charset: two the index has a code
\* for, one it has none for
SimpleCharsets == SUBSET { <<"NI">>, <<"HAO">>, <<"MA">> }

SimpleInit ==
    /\ IdleCache /\ IdleEncode /\ IdleSession
    /\ \E header \in Headers, body \in SimpleBodies, cache \in SeqsUpTo(SimpleUnits, 1),
          del \in SeqsUpTo(SimpleUnits, 1), csc \in SimpleCharsets :
         rwIn = [lines |-> header \o body, cache |-> cache, del |-> del, csc |-> csc]
    /\ rwOut = NoCall /\ rwOut2 = NoCall
    /\ rwPc = "init"

\* The step of writer() for the simple table
WriteSimple ==
    /\ rwPc = "init"
    /\ \E w \in {writerSimple([files |-> [simple |-> [exists |-> TRUE, lines |-> rwIn.lines]],
                               cached |-> [simple |-> rwIn.cache],
                               writeState |-> FALSE],
                              [simple |-> rwIn.del], rwIn.csc, SimpleCharacterDict)} :
         rwOut' = [lines |-> w.files["simple"].lines, writeState |-> w.writeState]
    /\ rwPc' = "written"
    /\ UNCHANGED <<rwIn, rwOut2, cacheVars, encodeVars, sessionVars>>

SimpleNext == WriteSimple

SpecSimple == SimpleInit /\ [][SimpleNext]_vars

\* deleteSet of _writeSimple
SimpleDeleteSet == {getCode(SimpleCharacterDict, ch[1], 3) : ch \in rwIn.csc}

\* A staged delete names row i of the table: its key, and the weight of the row or
\* the weight staged for the key
SimpleDeleteNames(i) ==
    \E k \in 1..Len(rwIn.del) :
        /\ SameKey(rwIn.del[k], RowField("simple", rwIn.lines, i, "text"),
                   RowField("simple", rwIn.lines, i, "code"))
        /\ \/ IntToStr(rwIn.del[k].weight) = RowField("simple", rwIn.lines, i, "weight")
           \/ \E j \in 1..Len(rwIn.cache) :
                /\ SameKey(rwIn.cache[j], rwIn.del[k].word, rwIn.del[k].code)
                /\ rwIn.cache[j].weight = rwIn.del[k].weight

\* C30: with characters staged for the charset, writer() rewrites the simple table,
\* whether a simple entry is staged or not, and the table written has no row, kept
\* or staged, under the first three code letters of such a character; with no
\* character staged, a row is missing from the table written only when a staged
\* delete names it.
C30_SimpleRewriteDropsCharsetCodes ==
    rwPc = "written" =>
        /\ rwIn.csc # {} =>
               /\ rwOut.writeState
               /\ \A i \in 1..Len(rwOut.lines) :
                      IsRow("simple", rwOut.lines, i)
                      => RowField("simple", rwOut.lines, i, "code") \notin SimpleDeleteSet
        /\ rwIn.csc = {} =>
               \A i \in 1..Len(rwIn.lines) :
                   (IsRow("simple", rwIn.lines, i) /\ ~SimpleDeleteNames(i))
                   => HasRowFor("simple", rwOut.lines,
                                RowField("simple", rwIn.lines, i, "text"),
                                RowField("simple", rwIn.lines, i, "code"))

\* The simple table held a row, and a simple entry was staged, under the first three
\* code letters of a character staged for the charset; the table was rewritten
C30_Witness ==
    /\ rwPc = "written"
    /\ rwOut.writeState
    /\ \E i \in 1..Len(rwIn.lines) :
         /\ IsRow("simple", rwIn.lines, i)
         /\ RowField("simple", rwIn.lines, i, "code") \in SimpleDeleteSet
    /\ \E j \in 1..Len(rwIn.cache) :
         /\ rwIn.cache[j].code \in SimpleDeleteSet
         /\ ~HasRowFor("simple", rwIn.lines, rwIn.cache[j].word, rwIn.cache[j].code)

====
